---- MODULE Spec2Model ----
(***************************************************************************)
(* State-machine model of the diagnostic toolkit in src/scripts:           *)
(*   health_check.py  - HealthChecker.run_full_check and main              *)
(*   benchmark.py     - benchmark_model and run_comprehensive_benchmark    *)
(* Percentages are kept in tenths of a percent, memory sizes in tenths of  *)
(* a GB, times in milliseconds; printing is not modelled.                  *)
(***************************************************************************)
EXTENDS Integers, Sequences, FiniteSets, TLC

(***************************************************************************)
(* Bounds of the model.                                                    *)
(***************************************************************************)
\* Largest number of probes of one health run whose outcome departs from
\* the nominal one (service up, HTTP 200, file present, low utilisation).
MaxAnomalies == 3
\* Longest target list given to run_comprehensive_benchmark.
MaxModels == 2
\* Largest number of cases of a benchmark of several targets whose probe
\* departs from the fast run (a benchmark of one target has no such limit).
MaxOddCases == 2
\* Largest number of entries of a result set given to print_results_summary
\* on its own.
MaxRanked == 3
\* Longest list of comma-separated items typed at the prompt of the
\* downloader.
MaxChoice == 2

VARIABLES
    pc,               \* health run: the statement of main/run_full_check to execute next
    checks,           \* self.results["checks"]: check name -> status
    system_info,      \* self.results["system_info"]
    recommendations,  \* self.results["recommendations"]
    verdict,          \* status_msg of run_full_check, as healthy/degraded/critical
    exit_code,        \* argument of sys.exit in main (-1 while running)
    saved,            \* what main did about saving the report
    HAS_PSUTIL,       \* module flag set by the optional import
    platform,         \* sys.platform
    stages,           \* history: the stages of run_full_check executed so far
    probes,           \* history: the probes invoked so far, with their outcomes
    anomalies,        \* number of non-nominal probe outcomes so far
    bpc,              \* benchmark run: the statement of run_comprehensive_benchmark to execute next
    models,           \* its argument: the targets, in order
    menu,             \* the outcomes the inference probe can have in this run
    mi,               \* index in models of the target of the outer loop
    model_results,    \* model_results of the iteration in progress
    results,          \* results: the dict, as its entries in insertion order
    now,              \* time.time(), in milliseconds
    calls,            \* history: the (target, prompt) cases benchmark_model was called for
    displayed,        \* history: the tables print_results_summary printed, each as its rows
    dpc,              \* downloader: the statement of its main to execute next
    args,             \* its parsed command line
    dl_system_info,   \* system_info of its main (the field the selection reads)
    choice,           \* what input() gave at the prompt of the interactive mode
    models_to_download, \* the names its download loop goes through, in order
    di,               \* index of the download loop
    attempts,         \* history: the calls of download_model, with how the pull ended
    completed,        \* "Model download process complete!" has been printed
    dl_exit           \* exit status of the downloader (-1 while running)

healthVars == <<pc, checks, system_info, recommendations, verdict, exit_code,
                saved, HAS_PSUTIL, platform, stages, probes, anomalies>>

benchVars == <<bpc, models, menu, mi, model_results, results, now, calls, displayed>>

downloadVars == <<dpc, args, dl_system_info, choice, models_to_download, di,
                  attempts, completed, dl_exit>>

vars == <<healthVars, benchVars, downloadVars>>

(***************************************************************************)
(* Python dict helpers.                                                    *)
(***************************************************************************)
EmptyDict == [x \in {} |-> "None"]

\* d[k] = v
Put(d, k, v) == [x \in (DOMAIN d) \cup {k} |-> IF x = k THEN v ELSE d[x]]

\* d.get(k)
Get(d, k) == IF k \in DOMAIN d THEN d[k] ELSE "None"

\* sum(1 for status in d.values() if status == s)
CountStatus(d, s) == Cardinality({k \in DOMAIN d : d[k] = s})

\* One entry of the probe history.
Reading(name, out, val, total) ==
    [probe |-> name, out |-> out, val |-> val, total |-> total]
Probe(name, out, val) == Reading(name, out, val, 0)

\* Outcomes with which a probe raises into the enclosing handler.
Raises == {"raise", "NameError"}

\* round(n / d) to the nearest integer, ties to even, as Python's round.
RoundHalfEven(n, d) ==
    LET q == n \div d
        r == n % d
    IN  IF 2 * r < d THEN q
        ELSE IF 2 * r > d THEN q + 1
        ELSE IF q % 2 = 0 THEN q ELSE q + 1

(***************************************************************************)
(* The outcomes the environment can give each probe.  The first one named  *)
(* in Nominal is the outcome of a fully working installation.              *)
(***************************************************************************)
\* memory.total, in MiB
MemTotals == {4096, 8192, 16333, 16384, 32768}

SystemInfoOutcomes  == {"read", "raise"}
FallbackOutcomes    == {"ok", "raise"}
ProcessOutcomes     == {"found", "notfound", "raise"}
ApiOutcomes         == {"200", "non200", "ConnectionError", "Timeout", "raise"}
TagsOutcomes        == {"models", "nomodels", "non200", "Timeout", "malformed"}
LlamaModelsOutcomes == {"gguf", "nogguf", "nodir", "raise"}
ConfigOutcomes      == {"ok", "missing", "malformed"}
ExtensionOutcomes   == {"installed", "notinstalled", "FileNotFoundError",
                        "TimeoutExpired", "raise"}
InternetOutcomes    == {"ok", "ConnectionError", "Timeout", "raise"}
PortOutcomes        == {"open", "closed", "raise"}
AiProcessOutcomes   == {"found", "none", "raise"}

\* cpu_percent and memory.percent, in tenths of a percent; Raise: the call raises
Raise == 0 - 1
CpuPercents    == {499, 500, 799, 800, Raise}
MemoryPercents == {699, 700, 849, 850, Raise}
\* <<disk.used, disk.total>> of psutil.disk_usage('/'), in GB
DiskUsages == {<<1598, 2000>>, <<800, 1000>>, <<899, 1000>>, <<450, 500>>,
               <<0, 0>>, <<Raise, Raise>>}

\* The outcome of a probe is that of a fully working, idle installation
\* (or is forced by a missing library, which is no choice of the run's).
Nominal(p) ==
    /\ p.out \in {"read", "ok", "found", "200", "models", "gguf",
                  "installed", "open", "NameError"}
    /\ p.probe = "system_info" /\ p.out = "read" => p.val = 16384
    /\ p.probe = "cpu_usage" /\ p.out = "read" => p.val = 499
    /\ p.probe = "memory_usage" /\ p.out = "read" => p.val = 699
    /\ p.probe = "disk_usage" /\ p.out = "read" => p.val = 1598

\* Number of probes of the log whose outcome is not the nominal one.
AnomalyCount(log) == Cardinality({i \in 1..Len(log) : ~Nominal(log[i])})

(***************************************************************************)
(* The six check categories.  Each operator is the whole method: from the  *)
(* status map and the outcomes of its probes to the new status map, the    *)
(* probes it invoked, and whether an exception left the method.            *)
(***************************************************************************)
Outcome(c, si, log, raised) ==
    [checks |-> c, system_info |-> si, probes |-> log, raised |-> raised]

\* A variant whose fallback stores the INFO status it prints.
check_system_info_storing_info(hasPsutil, c, si, out, mem) ==
    IF ~hasPsutil
    THEN LET log == <<Probe("system_info_fallback", out, 0)>>
         IN  IF out = "ok"
             THEN Outcome(Put(c, "system_info", "INFO"), si, log, FALSE)
             ELSE Outcome(Put(c, "system_info", "ERROR"), si, log, FALSE)
    ELSE LET log == <<Probe("system_info", out, mem)>>
         IN  IF out = "read"
             THEN Outcome(Put(c, "system_info", "OK"),
                          [memory_total_gb |-> RoundHalfEven(mem * 10, 1024)],
                          log, FALSE)
             ELSE Outcome(Put(c, "system_info", "ERROR"), si, log, FALSE)

check_system_info(hasPsutil, c, si, out, mem) ==
    IF ~hasPsutil
    THEN LET log == <<Probe("system_info_fallback", out, 0)>>
         IN  IF out = "ok"
             THEN Outcome(Put(c, "system_info", "WARNING"), si, log, FALSE)
             ELSE Outcome(Put(c, "system_info", "ERROR"), si, log, FALSE)
    ELSE LET log == <<Probe("system_info", out, mem)>>
         IN  IF out = "read"
             THEN Outcome(Put(c, "system_info", "OK"),
                          [memory_total_gb |-> RoundHalfEven(mem * 10, 1024)],
                          log, FALSE)
             ELSE Outcome(Put(c, "system_info", "ERROR"), si, log, FALSE)

check_ollama_service(c, si, proc, api, tags) ==
    LET log1 == <<Probe("ollama_process", proc, 0)>>
        c1   == IF proc = "notfound" THEN Put(c, "ollama_process", "WARNING") ELSE c
        log2 == Append(log1, Probe("ollama_api", api, 0))
        c2   == CASE api = "200"             -> Put(c1, "ollama_api", "OK")
                  [] api = "non200"          -> Put(c1, "ollama_api", "WARNING")
                  [] api = "ConnectionError" -> Put(c1, "ollama_api", "ERROR")
                  [] api = "Timeout"         -> Put(c1, "ollama_api", "WARNING")
                  [] OTHER                   -> c1
        log3 == Append(log2, Probe("ollama_models", tags, 0))
        c3   == CASE tags \in {"models", "nomodels"} -> Put(c2, "ollama_models", "OK")
                  [] tags = "non200"                 -> Put(c2, "ollama_models", "WARNING")
                  [] OTHER                           -> Put(c2, "ollama_models", "ERROR")
    IN  IF proc \in Raises
        THEN Outcome(Put(c, "ollama_service", "ERROR"), si, log1, FALSE)
        ELSE IF api \in Raises
        THEN Outcome(Put(c1, "ollama_service", "ERROR"), si, log2, FALSE)
        ELSE Outcome(c3, si, log3, FALSE)

\* A variant that records a missing models directory as an ERROR.
check_llama_cpp_missing_dir_error(c, si, proc, api, files) ==
    LET log1 == <<Probe("llama_cpp_server", proc, 0)>>
        c1   == IF proc = "notfound" THEN Put(c, "llama_cpp_server", "WARNING") ELSE c
        log2 == Append(log1, Probe("llama_cpp_api", api, 0))
        c2   == CASE api = "200" -> Put(c1, "llama_cpp_api", "OK")
                  [] api \in {"non200", "ConnectionError", "Timeout"}
                                 -> Put(c1, "llama_cpp_api", "WARNING")
                  [] OTHER       -> c1
        log3 == Append(log2, Probe("llama_cpp_models", files, 0))
        c3   == CASE files \in {"gguf", "nogguf"} -> Put(c2, "llama_cpp_models", "OK")
                  [] files = "nodir"              -> Put(c2, "llama_cpp_models", "ERROR")
                  [] OTHER                         -> c2
    IN  IF proc \in Raises
        THEN Outcome(Put(c, "llama_cpp", "ERROR"), si, log1, FALSE)
        ELSE IF api \in Raises
        THEN Outcome(Put(c1, "llama_cpp", "ERROR"), si, log2, FALSE)
        ELSE IF files \in Raises
        THEN Outcome(Put(c2, "llama_cpp", "ERROR"), si, log3, FALSE)
        ELSE Outcome(c3, si, log3, FALSE)

check_llama_cpp(c, si, proc, api, files) ==
    LET log1 == <<Probe("llama_cpp_server", proc, 0)>>
        c1   == IF proc = "notfound" THEN Put(c, "llama_cpp_server", "WARNING") ELSE c
        log2 == Append(log1, Probe("llama_cpp_api", api, 0))
        c2   == CASE api = "200" -> Put(c1, "llama_cpp_api", "OK")
                  [] api \in {"non200", "ConnectionError", "Timeout"}
                                 -> Put(c1, "llama_cpp_api", "WARNING")
                  [] OTHER       -> c1
        log3 == Append(log2, Probe("llama_cpp_models", files, 0))
        c3   == CASE files \in {"gguf", "nogguf"} -> Put(c2, "llama_cpp_models", "OK")
                  [] files = "nodir"              -> Put(c2, "llama_cpp_models", "WARNING")
                  [] OTHER                         -> c2
    IN  IF proc \in Raises
        THEN Outcome(Put(c, "llama_cpp", "ERROR"), si, log1, FALSE)
        ELSE IF api \in Raises
        THEN Outcome(Put(c1, "llama_cpp", "ERROR"), si, log2, FALSE)
        ELSE IF files \in Raises
        THEN Outcome(Put(c2, "llama_cpp", "ERROR"), si, log3, FALSE)
        ELSE Outcome(c3, si, log3, FALSE)

\* A variant that also stores what it found about the config file in the
\* snapshot.
check_vscode_integration_storing_config(c, si, config, ext) ==
    LET log1 == <<Probe("continue_config", config, 0)>>
        c1   == IF config = "ok" THEN Put(c, "continue_config", "OK")
                ELSE Put(c, "continue_config", "WARNING")
        log2 == Append(log1, Probe("continue_extension", ext, 0))
        c2   == CASE ext = "installed"    -> Put(c1, "continue_extension", "OK")
                  [] ext = "notinstalled" -> Put(c1, "continue_extension", "WARNING")
                  [] ext \in {"FileNotFoundError", "TimeoutExpired"}
                                          -> Put(c1, "vscode", "WARNING")
                  [] OTHER                -> c1
    IN  IF config = "malformed"
        THEN Outcome(Put(c, "vscode_integration", "ERROR"), si, log1, FALSE)
        ELSE IF ext \in Raises
        THEN Outcome(Put(c1, "vscode_integration", "ERROR"), si, log2, FALSE)
        ELSE Outcome(c2, Put(si, "continue_config", config), log2, FALSE)

check_vscode_integration(c, si, config, ext) ==
    LET log1 == <<Probe("continue_config", config, 0)>>
        c1   == IF config = "ok" THEN Put(c, "continue_config", "OK")
                ELSE Put(c, "continue_config", "WARNING")
        log2 == Append(log1, Probe("continue_extension", ext, 0))
        c2   == CASE ext = "installed"    -> Put(c1, "continue_extension", "OK")
                  [] ext = "notinstalled" -> Put(c1, "continue_extension", "WARNING")
                  [] ext \in {"FileNotFoundError", "TimeoutExpired"}
                                          -> Put(c1, "vscode", "WARNING")
                  [] OTHER                -> c1
    IN  IF config = "malformed"
        THEN Outcome(Put(c, "vscode_integration", "ERROR"), si, log1, FALSE)
        ELSE IF ext \in Raises
        THEN Outcome(Put(c1, "vscode_integration", "ERROR"), si, log2, FALSE)
        ELSE Outcome(c2, si, log2, FALSE)

\* ports_to_check
ports_to_check == <<"port_11434", "port_8080", "port_1234">>

\* A variant without the method's outer handler: what one of its probes
\* raises leaves the method.
check_network_connectivity_unguarded(c, si, internet, ports) ==
    LET log1 == <<Probe("internet", internet, 0)>>
        c1   == IF internet = "ok" THEN Put(c, "internet", "OK")
                ELSE Put(c, "internet", "WARNING")
        bad  == {i \in 1..Len(ports_to_check) : ports[i] \in Raises}
        last == IF bad = {} THEN Len(ports_to_check)
                ELSE CHOOSE i \in bad : \A j \in bad : i <= j
        log2 == log1 \o [i \in 1..last |-> Probe(ports_to_check[i], ports[i], 0)]
    IN  IF internet \in {"Timeout", "raise"}
        THEN Outcome(c, si, log1, TRUE)
        ELSE IF bad # {}
        THEN Outcome(c1, si, log2, TRUE)
        ELSE Outcome(c1, si, log2, FALSE)

\* A variant that tries the internet call again after a connection error.
check_network_connectivity_retrying(c, si, internet, ports) ==
    LET log1 == IF internet = "ConnectionError"
                THEN <<Probe("internet", internet, 0), Probe("internet", internet, 0)>>
                ELSE <<Probe("internet", internet, 0)>>
        c1   == IF internet = "ok" THEN Put(c, "internet", "OK")
                ELSE Put(c, "internet", "WARNING")
        bad  == {i \in 1..Len(ports_to_check) : ports[i] \in Raises}
        last == IF bad = {} THEN Len(ports_to_check)
                ELSE CHOOSE i \in bad : \A j \in bad : i <= j
        log2 == log1 \o [i \in 1..last |-> Probe(ports_to_check[i], ports[i], 0)]
    IN  IF internet \in {"Timeout", "raise"}
        THEN Outcome(Put(c, "network", "ERROR"), si, log1, FALSE)
        ELSE IF bad # {}
        THEN Outcome(Put(c1, "network", "ERROR"), si, log2, FALSE)
        ELSE Outcome(c1, si, log2, FALSE)

\* A variant that records a closed port as a WARNING under the port's name.
check_network_connectivity_closed_warns(c, si, internet, ports) ==
    LET log1 == <<Probe("internet", internet, 0)>>
        c1   == IF internet = "ok" THEN Put(c, "internet", "OK")
                ELSE Put(c, "internet", "WARNING")
        bad  == {i \in 1..Len(ports_to_check) : ports[i] \in Raises}
        last == IF bad = {} THEN Len(ports_to_check)
                ELSE CHOOSE i \in bad : \A j \in bad : i <= j
        log2 == log1 \o [i \in 1..last |-> Probe(ports_to_check[i], ports[i], 0)]
        shut == {ports_to_check[i] : i \in {j \in 1..last : ports[j] = "closed"}}
        c2   == [k \in DOMAIN c1 \cup shut |-> IF k \in shut THEN "WARNING" ELSE c1[k]]
    IN  IF internet \in {"Timeout", "raise"}
        THEN Outcome(Put(c, "network", "ERROR"), si, log1, FALSE)
        ELSE IF bad # {}
        THEN Outcome(Put(c2, "network", "ERROR"), si, log2, FALSE)
        ELSE Outcome(c2, si, log2, FALSE)

check_network_connectivity(c, si, internet, ports) ==
    LET log1 == <<Probe("internet", internet, 0)>>
        c1   == IF internet = "ok" THEN Put(c, "internet", "OK")
                ELSE Put(c, "internet", "WARNING")
        \* the ports probed: all of them, or those up to the first that raises
        bad  == {i \in 1..Len(ports_to_check) : ports[i] \in Raises}
        last == IF bad = {} THEN Len(ports_to_check)
                ELSE CHOOSE i \in bad : \A j \in bad : i <= j
        log2 == log1 \o [i \in 1..last |-> Probe(ports_to_check[i], ports[i], 0)]
    IN  IF internet \in {"Timeout", "raise"}
        THEN Outcome(Put(c, "network", "ERROR"), si, log1, FALSE)
        ELSE IF bad # {}
        THEN Outcome(Put(c1, "network", "ERROR"), si, log2, FALSE)
        ELSE Outcome(c1, si, log2, FALSE)

\* The three threshold ladders of check_performance_metrics, on tenths of a percent.
\* A variant of the CPU ladder with the lower boundary on the wrong side.
classify_cpu_inclusive(u) ==
    IF u <= 500 THEN "OK" ELSE IF u < 800 THEN "WARNING" ELSE "ERROR"

classify_cpu(u)    == IF u < 500 THEN "OK" ELSE IF u < 800 THEN "WARNING" ELSE "ERROR"
classify_memory(u) == IF u < 700 THEN "OK" ELSE IF u < 850 THEN "WARNING" ELSE "ERROR"
classify_disk(u)   == IF u < 800 THEN "OK" ELSE IF u < 900 THEN "WARNING" ELSE "ERROR"

\* (disk.used / disk.total) * 100, in tenths of a percent, rounded down
\* (comparing the floor with a whole threshold is comparing the quotient).
disk_percent(disk) == (disk[1] * 1000) \div disk[2]

NumOut(hasPsutil, v) == IF ~hasPsutil THEN "NameError" ELSE IF v = Raise THEN "raise" ELSE "read"

disk_out(hasPsutil, disk) ==
    IF hasPsutil /\ disk[2] = 0 /\ disk[1] # Raise THEN "ZeroDivisionError"
    ELSE NumOut(hasPsutil, disk[1])

\* A variant that skips the metrics when psutil is missing and records a
\* WARNING for the category.
check_performance_metrics_skipping(hasPsutil, c, si, cpu, mem, disk, ai) ==
    LET log1 == <<Probe("cpu_usage", NumOut(hasPsutil, cpu), cpu)>>
        c1   == Put(c, "cpu_usage", classify_cpu(cpu))
        log2 == Append(log1, Probe("memory_usage", NumOut(hasPsutil, mem), mem))
        c2   == Put(c1, "memory_usage", classify_memory(mem))
        log3 == Append(log2, Reading("disk_usage", disk_out(hasPsutil, disk),
                                     disk[1], disk[2]))
        c3   == Put(c2, "disk_usage", classify_disk(disk_percent(disk)))
        log4 == Append(log3, Probe("ai_processes", ai, 0))
        c4   == IF ai = "none" THEN Put(c3, "ai_processes", "WARNING") ELSE c3
    IN  IF ~hasPsutil
        THEN Outcome(Put(c, "performance", "WARNING"), si, <<>>, FALSE)
        ELSE IF cpu = Raise
        THEN Outcome(Put(c, "performance", "ERROR"), si, log1, FALSE)
        ELSE IF mem = Raise
        THEN Outcome(Put(c1, "performance", "ERROR"), si, log2, FALSE)
        ELSE IF disk[1] = Raise \/ disk[2] = 0
        THEN Outcome(Put(c2, "performance", "ERROR"), si, log3, FALSE)
        ELSE IF ai \in Raises
        THEN Outcome(Put(c3, "performance", "ERROR"), si, log4, FALSE)
        ELSE Outcome(c4, si, log4, FALSE)

check_performance_metrics(hasPsutil, c, si, cpu, mem, disk, ai) ==
    LET log1 == <<Probe("cpu_usage", NumOut(hasPsutil, cpu), cpu)>>
        c1   == Put(c, "cpu_usage", classify_cpu(cpu))
        log2 == Append(log1, Probe("memory_usage", NumOut(hasPsutil, mem), mem))
        c2   == Put(c1, "memory_usage", classify_memory(mem))
        log3 == Append(log2, Reading("disk_usage", disk_out(hasPsutil, disk),
                                     disk[1], disk[2]))
        c3   == Put(c2, "disk_usage", classify_disk(disk_percent(disk)))
        log4 == Append(log3, Probe("ai_processes", ai, 0))
        c4   == IF ai = "none" THEN Put(c3, "ai_processes", "WARNING") ELSE c3
    IN  IF ~hasPsutil \/ cpu = Raise
        THEN Outcome(Put(c, "performance", "ERROR"), si, log1, FALSE)
        ELSE IF mem = Raise
        THEN Outcome(Put(c1, "performance", "ERROR"), si, log2, FALSE)
        ELSE IF disk[1] = Raise \/ disk[2] = 0
        THEN Outcome(Put(c2, "performance", "ERROR"), si, log3, FALSE)
        ELSE IF ai \in Raises
        THEN Outcome(Put(c3, "performance", "ERROR"), si, log4, FALSE)
        ELSE Outcome(c4, si, log4, FALSE)

(***************************************************************************)
(* generate_recommendations: the rules in their order.                     *)
(***************************************************************************)
\* self.results["system_info"].get("memory_total_gb", 0), in tenths of a GB
memory_gb(si) == IF "memory_total_gb" \in DOMAIN si THEN si.memory_total_gb ELSE 0

memory_tier(si) ==
    IF memory_gb(si) >= 160
    THEN "Consider downloading larger models (13B+) for better coding assistance"
    ELSE IF memory_gb(si) >= 80
    THEN "Medium models (7B-13B) should provide good performance"
    ELSE "Limited memory - stick to small models (3B-7B)"

When(cond, rec) == IF cond THEN <<rec>> ELSE <<>>

\* A variant in which the disk rule is an elif of the memory rule.
generate_recommendations_chained(c, si, plat) ==
       When(Get(c, "ollama_process") = "WARNING", "Start Ollama: ~/.ollama/start.sh")
    \o When(Get(c, "ollama_api") = "ERROR",
            "Check if Ollama service is running: ~/.ollama/status.sh")
    \o When(Get(c, "ollama_models") = "WARNING",
            "Download models: ollama pull dolphin-mistral:7b-dpo-laser")
    \o When(Get(c, "continue_extension") = "WARNING",
            "Install Continue.dev: code --install-extension continue.continue")
    \o When(Get(c, "cpu_usage") = "ERROR",
            "High CPU usage - close unnecessary applications")
    \o When(Get(c, "memory_usage") = "ERROR",
            "High memory usage - restart applications or add more RAM")
    \o When(Get(c, "memory_usage") # "ERROR" /\ Get(c, "disk_usage") = "ERROR",
            "Low disk space - free up space or move models to external drive")
    \o <<memory_tier(si)>>
    \o When(plat = "darwin",
            "For Apple Silicon: Ensure Metal acceleration is enabled (LLAMA_METAL=1)")
    \o When(plat = "linux",
            "Consider installing CUDA drivers for NVIDIA GPU acceleration")

\* A variant whose memory tier has no else branch: no message below 8 GB.
generate_recommendations_without_else(c, si, plat) ==
       When(Get(c, "ollama_process") = "WARNING", "Start Ollama: ~/.ollama/start.sh")
    \o When(Get(c, "ollama_api") = "ERROR",
            "Check if Ollama service is running: ~/.ollama/status.sh")
    \o When(Get(c, "ollama_models") = "WARNING",
            "Download models: ollama pull dolphin-mistral:7b-dpo-laser")
    \o When(Get(c, "continue_extension") = "WARNING",
            "Install Continue.dev: code --install-extension continue.continue")
    \o When(Get(c, "cpu_usage") = "ERROR",
            "High CPU usage - close unnecessary applications")
    \o When(Get(c, "memory_usage") = "ERROR",
            "High memory usage - restart applications or add more RAM")
    \o When(Get(c, "disk_usage") = "ERROR",
            "Low disk space - free up space or move models to external drive")
    \o When(memory_gb(si) >= 80, memory_tier(si))
    \o When(plat = "darwin",
            "For Apple Silicon: Ensure Metal acceleration is enabled (LLAMA_METAL=1)")
    \o When(plat = "linux",
            "Consider installing CUDA drivers for NVIDIA GPU acceleration")

generate_recommendations(c, si, plat) ==
       When(Get(c, "ollama_process") = "WARNING", "Start Ollama: ~/.ollama/start.sh")
    \o When(Get(c, "ollama_api") = "ERROR",
            "Check if Ollama service is running: ~/.ollama/status.sh")
    \o When(Get(c, "ollama_models") = "WARNING",
            "Download models: ollama pull dolphin-mistral:7b-dpo-laser")
    \o When(Get(c, "continue_extension") = "WARNING",
            "Install Continue.dev: code --install-extension continue.continue")
    \o When(Get(c, "cpu_usage") = "ERROR",
            "High CPU usage - close unnecessary applications")
    \o When(Get(c, "memory_usage") = "ERROR",
            "High memory usage - restart applications or add more RAM")
    \o When(Get(c, "disk_usage") = "ERROR",
            "Low disk space - free up space or move models to external drive")
    \o <<memory_tier(si)>>
    \o When(plat = "darwin",
            "For Apple Silicon: Ensure Metal acceleration is enabled (LLAMA_METAL=1)")
    \o When(plat = "linux",
            "Consider installing CUDA drivers for NVIDIA GPU acceleration")

(***************************************************************************)
(* The summary of run_full_check and the exit status of main.              *)
(***************************************************************************)
\* A variant of the verdict that resolves the tie to degraded.
overall_status_tie_degraded(error_count, warning_count) ==
    IF error_count = 0 THEN "healthy"
    ELSE IF error_count <= warning_count THEN "degraded"
    ELSE "critical"

overall_status(error_count, warning_count) ==
    IF error_count = 0 THEN "healthy"
    ELSE IF error_count < warning_count THEN "degraded"
    ELSE "critical"

\* A variant of the exit status that also counts warnings.
exit_status_counting_warnings(c) ==
    IF CountStatus(c, "ERROR") + CountStatus(c, "WARNING") = 0 THEN 0 ELSE 1

exit_status(c) == IF CountStatus(c, "ERROR") = 0 THEN 0 ELSE 1

\* main's prompt: save_results runs on y/yes only, and swallows a failed write.
save_results(save_choice, write) ==
    IF save_choice \in {"y", "yes"}
    THEN (IF write = "written" THEN "saved" ELSE "failed")
    ELSE "declined"

\* A variant of the stage order with the network checks before the editor's.
stage_after_network_first(stage) ==
    CASE stage = "check_system_info"          -> "check_ollama_service"
      [] stage = "check_ollama_service"       -> "check_llama_cpp"
      [] stage = "check_llama_cpp"            -> "check_network_connectivity"
      [] stage = "check_network_connectivity" -> "check_vscode_integration"
      [] stage = "check_vscode_integration"   -> "check_performance_metrics"
      [] stage = "check_performance_metrics"  -> "generate_recommendations"
      [] stage = "generate_recommendations"   -> "summary"
      [] stage = "summary"                    -> "save_results"
      [] stage = "save_results"               -> "exit"
      [] OTHER                                -> "done"

\* The statement that follows each stage in run_full_check, and then in main.
stage_after(stage) ==
    CASE stage = "check_system_info"          -> "check_ollama_service"
      [] stage = "check_ollama_service"       -> "check_llama_cpp"
      [] stage = "check_llama_cpp"            -> "check_vscode_integration"
      [] stage = "check_vscode_integration"   -> "check_network_connectivity"
      [] stage = "check_network_connectivity" -> "check_performance_metrics"
      [] stage = "check_performance_metrics"  -> "generate_recommendations"
      [] stage = "generate_recommendations"   -> "summary"
      [] stage = "summary"                    -> "save_results"
      [] stage = "save_results"               -> "exit"
      [] OTHER                                -> "done"

\* The benchmark is not running.
BenchIdle ==
    /\ bpc = "idle"
    /\ models = <<>>
    /\ menu = {}
    /\ mi = 0
    /\ model_results = <<>>
    /\ results = <<>>
    /\ now = 0
    /\ calls = <<>>
    /\ displayed = <<>>

\* The parsed command line of a downloader that was not started.
NoArgs == [list |-> FALSE, model |-> "None", all |-> FALSE, category |-> "None"]

\* Nothing was typed at the prompt.
NoChoice == [kind |-> "none", items |-> <<>>]

\* The downloader is not running.
DownloadIdle ==
    /\ dpc = "idle"
    /\ args = NoArgs
    /\ dl_system_info = [memory_gb |-> 0]
    /\ choice = NoChoice
    /\ models_to_download = <<>>
    /\ di = 0
    /\ attempts = <<>>
    /\ completed = FALSE
    /\ dl_exit = 0 - 1

(***************************************************************************)
(* The health run: HealthChecker() and then main, one action per stage.    *)
(***************************************************************************)
Platforms == {"darwin", "linux", "win32"}

\* save_choice after strip().lower(), and whether writing the file works
SaveChoices == {"y", "yes", "n", ""}
WriteOutcomes == {"written", "raise"}

Init ==
    /\ pc = "check_system_info"
    /\ checks = EmptyDict
    /\ system_info = EmptyDict
    /\ recommendations = <<>>
    /\ verdict = "None"
    /\ exit_code = 0 - 1
    /\ saved = "None"
    /\ HAS_PSUTIL \in BOOLEAN
    /\ platform \in Platforms
    /\ stages = <<>>
    /\ probes = <<>>
    /\ anomalies = IF platform = "linux" THEN 0 ELSE 1
    /\ BenchIdle
    /\ DownloadIdle

\* A stage has run: what it left in the report, and where control goes.  An
\* exception that leaves a stage leaves run_full_check and main with it.
Ran(stage, r) ==
    /\ anomalies + AnomalyCount(r.probes) <= MaxAnomalies
    /\ anomalies' = anomalies + AnomalyCount(r.probes)
    /\ checks' = r.checks
    /\ system_info' = r.system_info
    /\ probes' = probes \o r.probes
    /\ stages' = Append(stages, stage)
    /\ pc' = IF r.raised THEN "aborted" ELSE stage_after(stage)
    /\ exit_code' = IF r.raised THEN 1 ELSE exit_code
    /\ UNCHANGED <<recommendations, verdict, saved, HAS_PSUTIL, platform, benchVars, downloadVars>>

\* What a call into psutil gives: the environment's choice, or NameError
\* when the import failed.
ViaPsutil(outcomes) == IF HAS_PSUTIL THEN outcomes ELSE {"NameError"}
NumViaPsutil(values) == IF HAS_PSUTIL THEN values ELSE {Raise}

\* The anomalies the run can still afford after a probe's outcome is chosen
\* (negative: the choice is over MaxAnomalies).
Left(budget, name, out, val) ==
    budget - (IF Nominal(Reading(name, out, val, 0)) THEN 0 ELSE 1)

CheckSystemInfo ==
    /\ pc = "check_system_info"
    /\ \E out \in (IF HAS_PSUTIL THEN SystemInfoOutcomes ELSE FallbackOutcomes),
          mem \in MemTotals :
          /\ out # "read" => mem = 16384
          /\ Ran("check_system_info",
                 check_system_info(HAS_PSUTIL, checks, system_info, out, mem))

CheckOllamaService ==
    /\ pc = "check_ollama_service"
    /\ \E proc \in ViaPsutil(ProcessOutcomes) :
        LET b1 == Left(MaxAnomalies - anomalies, "ollama_process", proc, 0) IN
        /\ b1 >= 0
        /\ \E api \in ApiOutcomes :
            LET b2 == Left(b1, "ollama_api", api, 0) IN
            /\ b2 >= 0
            /\ \E tags \in TagsOutcomes :
                /\ Left(b2, "ollama_models", tags, 0) >= 0
                /\ Ran("check_ollama_service",
                       check_ollama_service(checks, system_info, proc, api, tags))

CheckLlamaCpp ==
    /\ pc = "check_llama_cpp"
    /\ \E proc \in ViaPsutil(ProcessOutcomes) :
        LET b1 == Left(MaxAnomalies - anomalies, "llama_cpp_server", proc, 0) IN
        /\ b1 >= 0
        /\ \E api \in ApiOutcomes :
            LET b2 == Left(b1, "llama_cpp_api", api, 0) IN
            /\ b2 >= 0
            /\ \E files \in LlamaModelsOutcomes :
                /\ Left(b2, "llama_cpp_models", files, 0) >= 0
                /\ Ran("check_llama_cpp",
                       check_llama_cpp(checks, system_info, proc, api, files))

CheckVscodeIntegration ==
    /\ pc = "check_vscode_integration"
    /\ \E config \in ConfigOutcomes :
        LET b1 == Left(MaxAnomalies - anomalies, "continue_config", config, 0) IN
        /\ b1 >= 0
        /\ \E ext \in ExtensionOutcomes :
            /\ Left(b1, "continue_extension", ext, 0) >= 0
            /\ Ran("check_vscode_integration",
                   check_vscode_integration(checks, system_info, config, ext))

CheckNetworkConnectivity ==
    /\ pc = "check_network_connectivity"
    /\ \E internet \in InternetOutcomes :
        LET b1 == Left(MaxAnomalies - anomalies, "internet", internet, 0) IN
        /\ b1 >= 0
        /\ \E p1 \in PortOutcomes :
            LET b2 == Left(b1, ports_to_check[1], p1, 0) IN
            /\ b2 >= 0
            /\ \E p2 \in PortOutcomes :
                LET b3 == Left(b2, ports_to_check[2], p2, 0) IN
                /\ b3 >= 0
                /\ \E p3 \in PortOutcomes :
                    /\ Left(b3, ports_to_check[3], p3, 0) >= 0
                    /\ Ran("check_network_connectivity",
                           check_network_connectivity(checks, system_info, internet,
                                                      <<p1, p2, p3>>))

CheckPerformanceMetrics ==
    /\ pc = "check_performance_metrics"
    /\ \E cpu \in NumViaPsutil(CpuPercents) :
        LET b1 == Left(MaxAnomalies - anomalies, "cpu_usage",
                       NumOut(HAS_PSUTIL, cpu), cpu) IN
        /\ b1 >= 0
        /\ \E mem \in NumViaPsutil(MemoryPercents) :
            LET b2 == Left(b1, "memory_usage", NumOut(HAS_PSUTIL, mem), mem) IN
            /\ b2 >= 0
            /\ \E disk \in (IF HAS_PSUTIL THEN DiskUsages ELSE {<<Raise, Raise>>}) :
                LET b3 == Left(b2, "disk_usage", disk_out(HAS_PSUTIL, disk), disk[1]) IN
                /\ b3 >= 0
                /\ \E ai \in ViaPsutil(AiProcessOutcomes) :
                    /\ Left(b3, "ai_processes", ai, 0) >= 0
                    /\ Ran("check_performance_metrics",
                           check_performance_metrics(HAS_PSUTIL, checks, system_info,
                                                     cpu, mem, disk, ai))

GenerateRecommendations ==
    /\ pc = "generate_recommendations"
    /\ recommendations' = generate_recommendations(checks, system_info, platform)
    /\ stages' = Append(stages, "generate_recommendations")
    /\ pc' = stage_after("generate_recommendations")
    /\ UNCHANGED <<checks, system_info, verdict, exit_code, saved, HAS_PSUTIL,
                   platform, probes, anomalies, benchVars, downloadVars>>

Summary ==
    /\ pc = "summary"
    /\ verdict' = overall_status(CountStatus(checks, "ERROR"),
                                 CountStatus(checks, "WARNING"))
    /\ stages' = Append(stages, "summary")
    /\ pc' = stage_after("summary")
    /\ UNCHANGED <<checks, system_info, recommendations, exit_code, saved,
                   HAS_PSUTIL, platform, probes, anomalies, benchVars, downloadVars>>

\* main, after run_full_check returned: the prompt, and save_results on y/yes
\* (save_results catches what writing the file raises).
SaveResults ==
    /\ pc = "save_results"
    /\ \E save_choice \in SaveChoices, write \in WriteOutcomes :
          LET cost == (IF save_choice = "n" THEN 0 ELSE 1)
                      + (IF write = "written" THEN 0 ELSE 1)
          IN  /\ save_choice \notin {"y", "yes"} => write = "written"
              /\ anomalies + cost <= MaxAnomalies
              /\ anomalies' = anomalies + cost
              /\ saved' = save_results(save_choice, write)
    /\ stages' = Append(stages, "save_results")
    /\ pc' = stage_after("save_results")
    /\ UNCHANGED <<checks, system_info, recommendations, verdict, exit_code,
                   HAS_PSUTIL, platform, probes, benchVars, downloadVars>>

Exit ==
    /\ pc = "exit"
    /\ exit_code' = exit_status(checks)
    /\ stages' = Append(stages, "exit")
    /\ pc' = stage_after("exit")
    /\ UNCHANGED <<checks, system_info, recommendations, verdict, saved,
                   HAS_PSUTIL, platform, probes, anomalies, benchVars, downloadVars>>

Next ==
    \/ CheckSystemInfo
    \/ CheckOllamaService
    \/ CheckLlamaCpp
    \/ CheckVscodeIntegration
    \/ CheckNetworkConnectivity
    \/ CheckPerformanceMetrics
    \/ GenerateRecommendations
    \/ Summary
    \/ SaveResults
    \/ Exit

Spec == Init /\ [][Next]_vars

(***************************************************************************)
(* benchmark.py: the inference probe and the comprehensive benchmark.      *)
(***************************************************************************)
\* len(get_test_prompts())
NumPrompts == 5
\* timeout=120 of the inference probe, in milliseconds
BenchTimeout == 120000
\* "response_time": 120.0 of a timed out case, in milliseconds
TimeoutResponseTime == 120000

ModelNames == {"codellama:7b", "mistral:7b"}

\* What `ollama run` can do: how it ends (exit status, or the exception of
\* starting it), after how many milliseconds of time.time() (the wall clock,
\* which can stand still or be set back), and the words and characters of
\* its stripped output.
Run(ends, duration, words, chars) ==
    [ends |-> ends, duration |-> duration, words |-> words, chars |-> chars]

FastRun == Run("exit0", 1000, 10, 57)

ProbeOutcomes ==
    {FastRun,
     Run("exit0", 2504, 37, 230),
     Run("exit0", 0, 5, 21),
     Run("exit0", 0 - 50, 5, 21),
     Run("exit0", 130000, 50, 300),
     Run("exit1", 300, 0, 0),
     Run("FileNotFoundError", 5, 0, 0),
     Run("PermissionError", 7, 0, 0)}

\* str(e) of the exceptions of a probe
StrOf(exc) ==
    CASE exc = "CalledProcessError" -> "Command returned non-zero exit status 1."
      [] exc = "FileNotFoundError"  -> "No such file or directory: 'ollama'"
      [] exc = "PermissionError"    -> "Permission denied: 'ollama'"
      [] OTHER                      -> exc

\* A variant of run_command that passes no timeout on: the command runs to
\* its end.
run_command_without_timeout(o, timeout) ==
    IF o.ends \notin {"exit0", "exit1"}
    THEN [exc |-> o.ends, elapsed |-> o.duration, words |-> 0, chars |-> 0]
    ELSE IF o.ends = "exit1"
    THEN [exc |-> "CalledProcessError", elapsed |-> o.duration, words |-> 0, chars |-> 0]
    ELSE [exc |-> "None", elapsed |-> o.duration, words |-> o.words, chars |-> o.chars]

\* run_command: subprocess.run with a timeout and check=True.  The result:
\* the exception raised (None: it returned), the time it took, the output.
run_command(o, timeout) ==
    IF o.ends \notin {"exit0", "exit1"}
    THEN [exc |-> o.ends, elapsed |-> o.duration, words |-> 0, chars |-> 0]
    ELSE IF o.duration > timeout
    THEN [exc |-> "TimeoutExpired", elapsed |-> timeout, words |-> 0, chars |-> 0]
    ELSE IF o.ends = "exit1"
    THEN [exc |-> "CalledProcessError", elapsed |-> o.duration, words |-> 0, chars |-> 0]
    ELSE [exc |-> "None", elapsed |-> o.duration, words |-> o.words, chars |-> o.chars]

\* A variant of benchmark_model that handles the timeout and the failed
\* command only: any other exception leaves it.
benchmark_model_narrow_handler(model_name, start_time, o) ==
    LET run           == run_command(o, BenchTimeout)
        end_time      == start_time + run.elapsed
        response_time == end_time - start_time
    IN  IF run.exc = "None"
        THEN [model             |-> model_name,
              success           |-> TRUE,
              response_time     |-> RoundHalfEven(response_time, 10) * 10,
              tokens_generated  |-> RoundHalfEven(run.words * 13, 10),
              tokens_per_second |-> IF response_time > 0
                                    THEN RoundHalfEven(run.words * 130000, response_time)
                                    ELSE 0,
              response_length   |-> run.chars,
              error             |-> "None"]
        ELSE IF run.exc = "TimeoutExpired"
        THEN [model             |-> model_name,
              success           |-> FALSE,
              response_time     |-> TimeoutResponseTime,
              tokens_generated  |-> 0,
              tokens_per_second |-> 0,
              response_length   |-> 0,
              error             |-> "timeout"]
        ELSE IF run.exc = "CalledProcessError"
        THEN [model             |-> model_name,
              success           |-> FALSE,
              response_time     |-> response_time,
              tokens_generated  |-> 0,
              tokens_per_second |-> 0,
              response_length   |-> 0,
              error             |-> StrOf(run.exc)]
        ELSE [raised |-> run.exc]

\* A variant that divides by the response time whatever it is.
benchmark_model_dividing_always(model_name, start_time, o) ==
    LET run           == run_command(o, BenchTimeout)
        end_time      == start_time + run.elapsed
        response_time == end_time - start_time
    IN  IF run.exc = "None"
        THEN IF response_time = 0
             THEN [model             |-> model_name,
                   success           |-> FALSE,
                   response_time     |-> response_time,
                   tokens_generated  |-> 0,
                   tokens_per_second |-> 0,
                   response_length   |-> 0,
                   error             |-> "float division by zero"]
             ELSE [model             |-> model_name,
                   success           |-> TRUE,
                   response_time     |-> RoundHalfEven(response_time, 10) * 10,
                   tokens_generated  |-> RoundHalfEven(run.words * 13, 10),
                   tokens_per_second |-> IF response_time > 0
                                         THEN RoundHalfEven(run.words * 130000, response_time)
                                         ELSE 0 - RoundHalfEven(run.words * 130000,
                                                                0 - response_time),
                   response_length   |-> run.chars,
                   error             |-> "None"]
        ELSE IF run.exc = "TimeoutExpired"
        THEN [model             |-> model_name,
              success           |-> FALSE,
              response_time     |-> TimeoutResponseTime,
              tokens_generated  |-> 0,
              tokens_per_second |-> 0,
              response_length   |-> 0,
              error             |-> "timeout"]
        ELSE [model             |-> model_name,
              success           |-> FALSE,
              response_time     |-> response_time,
              tokens_generated  |-> 0,
              tokens_per_second |-> 0,
              response_length   |-> 0,
              error             |-> StrOf(run.exc)]

\* benchmark_model.  response_time is in milliseconds (a successful one rounded
\* to hundredths of a second), tokens_per_second in hundredths.
benchmark_model(model_name, start_time, o) ==
    LET run           == run_command(o, BenchTimeout)
        end_time      == start_time + run.elapsed
        response_time == end_time - start_time
    IN  IF run.exc = "None"
        THEN [model             |-> model_name,
              success           |-> TRUE,
              response_time     |-> RoundHalfEven(response_time, 10) * 10,
              tokens_generated  |-> RoundHalfEven(run.words * 13, 10),
              tokens_per_second |-> IF response_time > 0
                                    THEN RoundHalfEven(run.words * 130000, response_time)
                                    ELSE 0,
              response_length   |-> run.chars,
              error             |-> "None"]
        ELSE IF run.exc = "TimeoutExpired"
        THEN [model             |-> model_name,
              success           |-> FALSE,
              response_time     |-> TimeoutResponseTime,
              tokens_generated  |-> 0,
              tokens_per_second |-> 0,
              response_length   |-> 0,
              error             |-> "timeout"]
        ELSE [model             |-> model_name,
              success           |-> FALSE,
              response_time     |-> response_time,
              tokens_generated  |-> 0,
              tokens_per_second |-> 0,
              response_length   |-> 0,
              error             |-> StrOf(run.exc)]

RECURSIVE SumSeq(_)
SumSeq(q) == IF q = <<>> THEN 0 ELSE Head(q) + SumSeq(Tail(q))

IsSuccess(r) == r.success

\* A variant of the summary that divides the sums by the number of cases.
target_summary_over_total(tests, total) ==
    LET successful_tests == SelectSeq(tests, IsSuccess)
        n == Len(successful_tests)
        times == [i \in 1..n |-> successful_tests[i].response_time]
        rates == [i \in 1..n |-> successful_tests[i].tokens_per_second]
    IN  [average_response_time     |-> IF n > 0 THEN RoundHalfEven(SumSeq(times), total * 10)
                                       ELSE 0,
         average_tokens_per_second |-> IF n > 0 THEN RoundHalfEven(SumSeq(rates), total)
                                       ELSE 0,
         success_rate              |-> IF n > 0 THEN RoundHalfEven(n * 1000, total)
                                       ELSE 0,
         total_tests               |-> total,
         successful_tests          |-> n]

\* A variant of the summary that averages over every result of the target.
target_summary_over_all(tests, total) ==
    LET successful_tests == SelectSeq(tests, IsSuccess)
        n == Len(tests)
        times == [i \in 1..n |-> tests[i].response_time]
        rates == [i \in 1..n |-> tests[i].tokens_per_second]
    IN  [average_response_time     |-> IF n > 0 THEN RoundHalfEven(SumSeq(times), n * 10)
                                       ELSE 0,
         average_tokens_per_second |-> IF n > 0 THEN RoundHalfEven(SumSeq(rates), n)
                                       ELSE 0,
         success_rate              |-> IF n > 0
                                       THEN RoundHalfEven(Len(successful_tests) * 1000, total)
                                       ELSE 0,
         total_tests               |-> total,
         successful_tests          |-> Len(successful_tests)]

\* The summary of one target.  average_response_time is in hundredths of a
\* second, average_tokens_per_second in hundredths, success_rate in tenths of
\* a percent.
target_summary(tests, total) ==
    LET successful_tests == SelectSeq(tests, IsSuccess)
        n == Len(successful_tests)
        times == [i \in 1..n |-> successful_tests[i].response_time]
        rates == [i \in 1..n |-> successful_tests[i].tokens_per_second]
    IN  [average_response_time     |-> IF n > 0 THEN RoundHalfEven(SumSeq(times), n * 10)
                                       ELSE 0,
         average_tokens_per_second |-> IF n > 0 THEN RoundHalfEven(SumSeq(rates), n)
                                       ELSE 0,
         success_rate              |-> IF n > 0 THEN RoundHalfEven(n * 1000, total)
                                       ELSE 0,
         total_tests               |-> total,
         successful_tests          |-> n]

\* An assignment that leaves the entry of a present key as it is.
DictSet_keeping_first(d, key, entry) ==
    IF \E i \in 1..Len(d) : d[i].key = key
    THEN d
    ELSE Append(d, [key |-> key, value |-> entry])

\* results[model] = entry: a new key goes last, a present key keeps its place
DictSet(d, key, entry) ==
    IF \E i \in 1..Len(d) : d[i].key = key
    THEN [i \in 1..Len(d) |-> IF d[i].key = key THEN [key |-> key, value |-> entry]
                              ELSE d[i]]
    ELSE Append(d, [key |-> key, value |-> entry])

\* The key of sorted: x[1]["summary"]["average_tokens_per_second"]
SortKey(item) == item.value.summary.average_tokens_per_second

\* A sort that puts an item before the items of the same key.
RECURSIVE sorted_models_ties_reversed(_)
sorted_models_ties_reversed(items) ==
    IF items = <<>> THEN <<>>
    ELSE LET item == items[Len(items)]
             acc  == sorted_models_ties_reversed(SubSeq(items, 1, Len(items) - 1))
             p    == Cardinality({i \in 1..Len(acc) : SortKey(acc[i]) > SortKey(item)})
         IN  SubSeq(acc, 1, p) \o <<item>> \o SubSeq(acc, p + 1, Len(acc))

\* sorted(results.items(), key=..., reverse=True): descending, and stable (an
\* item goes behind the earlier items of the same key).
RECURSIVE sorted_models(_)
sorted_models(items) ==
    IF items = <<>> THEN <<>>
    ELSE LET item == items[Len(items)]
             acc  == sorted_models(SubSeq(items, 1, Len(items) - 1))
             p    == Cardinality({i \in 1..Len(acc) : SortKey(acc[i]) >= SortKey(item)})
         IN  SubSeq(acc, 1, p) \o <<item>> \o SubSeq(acc, p + 1, Len(acc))

\* print_results_summary: nothing for an empty result set, otherwise one table
\* with a row per entry, in sorted order.
print_results_summary(res) ==
    IF res = <<>> THEN <<>>
    ELSE LET rows == sorted_models(res)
         IN  <<[i \in 1..Len(rows) |->
                   [model                     |-> rows[i].key,
                    average_response_time     |-> rows[i].value.summary.average_response_time,
                    average_tokens_per_second |-> rows[i].value.summary.average_tokens_per_second,
                    success_rate              |-> rows[i].value.summary.success_rate]]>>

TargetLists == UNION {[1..n -> ModelNames] : n \in 0..MaxModels}

\* A run on one target can meet every outcome; a run on several meets the
\* fast run and one other outcome.
Menus(targets) ==
    IF Len(targets) <= 1 THEN {ProbeOutcomes}
    ELSE {{FastRun, o} : o \in ProbeOutcomes \ {FastRun}}

\* The outcomes the next case can have.
Affordable ==
    IF Len(models) <= 1
       \/ Cardinality({j \in 1..Len(calls) : calls[j].outcome # FastRun}) < MaxOddCases
    THEN menu
    ELSE menu \cap {FastRun}

\* The health run is not running.
HealthIdle ==
    /\ pc = "idle"
    /\ checks = EmptyDict
    /\ system_info = EmptyDict
    /\ recommendations = <<>>
    /\ verdict = "None"
    /\ exit_code = 0 - 1
    /\ saved = "None"
    /\ HAS_PSUTIL = TRUE
    /\ platform = "linux"
    /\ stages = <<>>
    /\ probes = <<>>
    /\ anomalies = 0

BenchInit ==
    /\ HealthIdle
    /\ DownloadIdle
    /\ bpc = "start"
    /\ models \in TargetLists
    /\ menu \in Menus(models)
    /\ mi = 0
    /\ model_results = <<>>
    /\ results = <<>>
    /\ now = 0
    /\ calls = <<>>
    /\ displayed = <<>>

\* if not models: return {}; otherwise enter the loop over the targets
StartBenchmark ==
    /\ bpc = "start"
    /\ IF models = <<>>
       THEN bpc' = "done" /\ mi' = mi
       ELSE bpc' = "case" /\ mi' = 1
    /\ UNCHANGED <<models, menu, model_results, results, now, calls, displayed, healthVars, downloadVars>>

\* One iteration of the loop over the prompts: benchmark_model and the append.
\* An exception that leaves benchmark_model leaves the benchmark with it.
RunCase ==
    /\ bpc = "case"
    /\ \E o \in Affordable :
          LET result == benchmark_model(models[mi], now, o) IN
          /\ now' = now + run_command(o, BenchTimeout).elapsed
          /\ calls' = Append(calls, [target |-> mi, prompt |-> Len(model_results) + 1,
                                     outcome |-> o])
          /\ IF "raised" \in DOMAIN result
             THEN /\ bpc' = "aborted"
                  /\ model_results' = model_results
             ELSE /\ bpc' = IF Len(model_results) + 1 = NumPrompts THEN "summary"
                            ELSE "case"
                  /\ model_results' = Append(model_results, result)
    /\ UNCHANGED <<models, menu, mi, results, displayed, healthVars, downloadVars>>

\* The rest of an iteration of the loop over the targets: the averages and
\* results[model].
Summarise ==
    /\ bpc = "summary"
    /\ results' = DictSet(results, models[mi],
                          [individual_tests |-> model_results,
                           summary |-> target_summary(model_results, NumPrompts)])
    /\ model_results' = <<>>
    /\ IF mi = Len(models)
       THEN bpc' = "done" /\ mi' = mi
       ELSE bpc' = "case" /\ mi' = mi + 1
    /\ UNCHANGED <<models, menu, now, calls, displayed, healthVars, downloadVars>>

\* main, after run_comprehensive_benchmark returned: print_results_summary
PrintResultsSummary ==
    /\ bpc = "done"
    /\ displayed = <<>>
    /\ displayed' = displayed \o print_results_summary(results)
    /\ UNCHANGED <<bpc, models, menu, mi, model_results, results, now, calls, healthVars, downloadVars>>

BenchNext ==
    \/ StartBenchmark
    \/ RunCase
    \/ Summarise
    \/ PrintResultsSummary

BenchSpec == BenchInit /\ [][BenchNext]_vars

(***************************************************************************)
(* print_results_summary on result sets of up to MaxRanked targets, each   *)
(* the entry of a target whose five cases ended alike.                     *)
(***************************************************************************)
RankedNames == ModelNames \cup {"deepseek-coder:6.7b", "llama3:8b"}

\* Runs that give 12.0 and 30.0 tokens/sec, and a failed one.
RankedRuns == {Run("exit0", 1300, 12, 60), Run("exit0", 1300, 30, 150),
               Run("exit1", 300, 0, 0)}

\* results[name] of a target whose cases all had the outcome o
UniformEntry(name, o) ==
    LET tests == [i \in 1..NumPrompts |-> benchmark_model(name, 0, o)]
    IN  [key |-> name,
         value |-> [individual_tests |-> tests,
                    summary |-> target_summary(tests, NumPrompts)]]

\* The result sets: their keys are distinct.
RankedResults ==
    UNION {{[i \in 1..n |-> UniformEntry(names[i], runs[i])] :
               names \in {f \in [1..n -> RankedNames] :
                             \A i, j \in 1..n : i # j => f[i] # f[j]},
               runs \in [1..n -> RankedRuns]} : n \in 0..MaxRanked}

RankInit ==
    /\ HealthIdle
    /\ DownloadIdle
    /\ bpc = "done"
    /\ models = <<>>
    /\ menu = {}
    /\ mi = 0
    /\ model_results = <<>>
    /\ results \in RankedResults
    /\ now = 0
    /\ calls = <<>>
    /\ displayed = <<>>

RankSpec == RankInit /\ [][PrintResultsSummary]_vars

(***************************************************************************)
(* The toolkit: one run of either program.                                 *)
(***************************************************************************)
ToolkitInit == Init \/ BenchInit

ToolkitNext == Next \/ BenchNext

ToolkitSpec == ToolkitInit /\ [][ToolkitNext]_vars

(***************************************************************************)
(* The model downloader: main, one action per step.                        *)
(***************************************************************************)
\* The value main gives memory_gb when the reading of the memory fails.
FallbackMemoryGb == 8

\* The list of get_model_recommendations before the filter; recommended is
\* the value the entry has for the given memory.
Catalog(memory) ==
    <<[name |-> "dolphin-2.6-mistral-7b", min_memory |-> 8,
       recommended |-> TRUE, category |-> "lightweight"],
      [name |-> "dolphin-mixtral-8x7b", min_memory |-> 16,
       recommended |-> memory >= 16, category |-> "balanced"],
      [name |-> "wizardlm-2-8x22b", min_memory |-> 16,
       recommended |-> memory >= 16, category |-> "creative"],
      [name |-> "dolphin-2.9.2-qwen2.5-72b", min_memory |-> 32,
       recommended |-> memory >= 32, category |-> "advanced"],
      [name |-> "mythomax-l2-13b", min_memory |-> 16,
       recommended |-> memory >= 16, category |-> "general"]>>

\* choices of --category
CategoryChoices == {"lightweight", "balanced", "creative", "advanced", "general"}

\* [x for x in q if keep[x]], for the entries of a list
RECURSIVE Filter(_, _)
Filter(q, keep) ==
    IF q = <<>> THEN <<>>
    ELSE IF Head(q) \in keep THEN <<Head(q)>> \o Filter(Tail(q), keep)
    ELSE Filter(Tail(q), keep)

\* A list that is not filtered by the memory.
get_model_recommendations_unfiltered(info) == Catalog(info.memory_gb)

\* get_model_recommendations: the entries with min_memory <= memory_gb
get_model_recommendations(info) ==
    LET all_models == Catalog(info.memory_gb)
    IN  Filter(all_models,
               {all_models[i] : i \in {k \in 1..Len(all_models) :
                                         all_models[k].min_memory <= info.memory_gb}})

\* What reading the memory can give: the size in KiB (MemTotal of
\* /proc/meminfo; hw.memsize is a number of bytes, whose floor division by
\* 1024**3 is that of its KiB by 1024**2), no MemTotal line, or an exception.
MemReading(ends, kib) == [ends |-> ends, kib |-> kib]

MemReadings ==
    {MemReading("ok", 8388607), MemReading("ok", 8388608),
     MemReading("ok", 16777215), MemReading("ok", 16777216),
     MemReading("ok", 33554432), MemReading("ok", 67108864),
     MemReading("absent", 0), MemReading("raise", 0)}

\* get_system_info, for the field the selection reads
get_system_info(reading) ==
    [memory_gb |-> CASE reading.ends = "ok"     -> reading.kib \div (1024 * 1024)
                     [] reading.ends = "absent" -> 0
                     [] OTHER                   -> FallbackMemoryGb]

\* How a command of the downloader can end.
CommandOutcomes == {"exit0", "exit1", "FileNotFoundError", "KeyboardInterrupt"}

\* run_command of the downloader: the exception it raises, if any
dl_run_command(o) == IF o = "exit0" THEN "None"
                     ELSE IF o = "exit1" THEN "CalledProcessError"
                     ELSE o

\* check_ollama: True, False, or the exception that leaves it
check_ollama(o) ==
    LET exc == dl_run_command(o)
    IN  IF exc = "None" THEN [raised |-> "None", value |-> TRUE]
        ELSE IF exc \in {"CalledProcessError", "FileNotFoundError"}
        THEN [raised |-> "None", value |-> FALSE]
        ELSE [raised |-> exc, value |-> FALSE]

\* download_model: True, False, or the exception that leaves it
download_model(o) ==
    LET exc == dl_run_command(o)
    IN  IF exc = "None" THEN [raised |-> "None", value |-> TRUE]
        ELSE IF exc = "CalledProcessError" THEN [raised |-> "None", value |-> FALSE]
        ELSE [raised |-> exc, value |-> FALSE]

\* The branch of main the arguments select.
mode(a) ==
    IF a.list THEN "list"
    ELSE IF a.model # "None" THEN "model"
    ELSE IF a.all THEN "all"
    ELSE IF a.category # "None" THEN "category"
    ELSE "interactive"

\* The items of a typed line, stripped: numbers, a word, and a character
\* that str.isdigit accepts and int rejects (a superscript two).
Digits == {"0", "1", "2", "3", "4", "5", "6"}
Items == Digits \cup {"x", "sup2"}

isdigit(x) == x \in Digits \cup {"sup2"}

\* int(x) of an item str.isdigit accepted; -1 stands for ValueError
int(x) ==
    CASE x = "0" -> 0 [] x = "1" -> 1 [] x = "2" -> 2 [] x = "3" -> 3
      [] x = "4" -> 4 [] x = "5" -> 5 [] x = "6" -> 6 [] OTHER -> 0 - 1

\* indices = [int(x.strip()) - 1 for x in choice.split(',') if x.strip().isdigit()]
RECURSIVE indices(_)
indices(items) ==
    IF items = <<>> THEN <<>>
    ELSE IF isdigit(Head(items)) THEN <<int(Head(items)) - 1>> \o indices(Tail(items))
    ELSE indices(Tail(items))

\* int raised ValueError in the comprehension
ValueError(items) == \E i \in 1..Len(items) : isdigit(items[i]) /\ int(items[i]) < 0

\* [recommendations[i] for i in indices if 0 <= i < len(recommendations)],
\* with 0-based i
RECURSIVE selected(_, _)
selected(recs, ind) ==
    IF ind = <<>> THEN <<>>
    ELSE IF 0 <= Head(ind) /\ Head(ind) < Len(recs)
    THEN <<recs[Head(ind) + 1]>> \o selected(recs, Tail(ind))
    ELSE selected(recs, Tail(ind))

NamesOf(recs) == [i \in 1..Len(recs) |-> recs[i].name]

\* What input() can give: 'all', a line of items, or KeyboardInterrupt.
Choices ==
    {[kind |-> "all", items |-> <<>>], [kind |-> "interrupt", items |-> <<>>]}
    \cup {[kind |-> "numbers", items |-> q] :
             q \in UNION {[1..n -> Items] : n \in 0..MaxChoice}}

ArgSets ==
    [list : BOOLEAN, model : {"None", "llama3:8b"}, all : BOOLEAN,
     category : {"None"} \cup CategoryChoices]

DownloadInit ==
    /\ HealthIdle
    /\ BenchIdle
    /\ dpc = "check_ollama"
    /\ args \in ArgSets
    /\ dl_system_info = [memory_gb |-> 0]
    /\ choice = NoChoice
    /\ models_to_download = <<>>
    /\ di = 0
    /\ attempts = <<>>
    /\ completed = FALSE
    /\ dl_exit = 0 - 1

\* How main ends when an exception leaves it.
Uncaught(exc) == IF exc = "KeyboardInterrupt" THEN 130 ELSE 1

\* if not check_ollama(): sys.exit(1); if args.list: list and return
CheckOllama ==
    /\ dpc = "check_ollama"
    /\ \E o \in CommandOutcomes :
          LET r == check_ollama(o) IN
          IF r.raised # "None"
          THEN dpc' = "aborted" /\ dl_exit' = Uncaught(r.raised)
          ELSE IF ~r.value THEN dpc' = "done" /\ dl_exit' = 1
          ELSE IF args.list THEN dpc' = "done" /\ dl_exit' = 0
          ELSE dpc' = "get_system_info" /\ dl_exit' = dl_exit
    /\ UNCHANGED <<args, dl_system_info, choice, models_to_download, di, attempts,
                   completed, healthVars, benchVars>>

\* system_info = get_system_info()
GetSystemInfo ==
    /\ dpc = "get_system_info"
    /\ \E reading \in MemReadings : dl_system_info' = get_system_info(reading)
    /\ dpc' = "select"
    /\ UNCHANGED <<args, choice, models_to_download, di, attempts, completed, dl_exit,
                   healthVars, benchVars>>

\* main goes on to the download loop over a list of names, or returns.
Selected(names) ==
    /\ models_to_download' = names
    /\ IF names = <<>>
       THEN dpc' = "done" /\ di' = di /\ dl_exit' = 0
       ELSE dpc' = "download" /\ di' = 1 /\ dl_exit' = dl_exit

\* The branch of main up to its download loop: the one model of --model,
\* the recommendations of --all, those of the category of --category (none:
\* a warning and return), or what was typed at the prompt (nothing valid, an
\* invalid number or an interrupt: a warning and return).
Select ==
    /\ dpc = "select"
    /\ LET recs == get_model_recommendations(dl_system_info) IN
       CASE mode(args) = "model" ->
                /\ Selected(<<args.model>>)
                /\ choice' = choice
         [] mode(args) = "all" ->
                /\ IF recs = <<>>
                   THEN /\ models_to_download' = <<>>
                        /\ dpc' = "complete" /\ di' = di /\ dl_exit' = dl_exit
                   ELSE Selected(NamesOf(recs))
                /\ choice' = choice
         [] mode(args) = "category" ->
                /\ Selected(NamesOf(Filter(recs,
                       {recs[i] : i \in {k \in 1..Len(recs) :
                                            recs[k].category = args.category}})))
                /\ choice' = choice
         [] OTHER ->
                IF recs = <<>>
                THEN Selected(<<>>) /\ choice' = choice
                ELSE \E c \in Choices :
                        /\ choice' = c
                        /\ CASE c.kind = "all" -> Selected(NamesOf(recs))
                             [] c.kind = "interrupt" -> Selected(<<>>)
                             [] OTHER ->
                                    IF ValueError(c.items) THEN Selected(<<>>)
                                    ELSE Selected(NamesOf(selected(recs, indices(c.items))))
    /\ UNCHANGED <<args, dl_system_info, attempts, completed, healthVars, benchVars>>

\* One iteration of the download loop: download_model(model["name"]).  An
\* exception that leaves download_model leaves main, except KeyboardInterrupt
\* in the interactive mode, after which main returns.
Download ==
    /\ dpc = "download"
    /\ \E o \in CommandOutcomes :
          LET r == download_model(o) IN
          /\ attempts' = Append(attempts, [name |-> models_to_download[di], outcome |-> o])
          /\ IF r.raised = "None"
             THEN /\ di' = di + 1
                  /\ dpc' = IF di = Len(models_to_download) THEN "complete" ELSE "download"
                  /\ dl_exit' = dl_exit
             ELSE IF r.raised = "KeyboardInterrupt" /\ mode(args) = "interactive"
             THEN dpc' = "done" /\ di' = di /\ dl_exit' = 0
             ELSE dpc' = "aborted" /\ di' = di /\ dl_exit' = Uncaught(r.raised)
    /\ UNCHANGED <<args, dl_system_info, choice, models_to_download, completed,
                   healthVars, benchVars>>

\* print_success("Model download process complete!") and the end of main
Complete ==
    /\ dpc = "complete"
    /\ completed' = TRUE
    /\ dpc' = "done"
    /\ dl_exit' = 0
    /\ UNCHANGED <<args, dl_system_info, choice, models_to_download, di, attempts,
                   healthVars, benchVars>>

DownloadNext ==
    \/ CheckOllama
    \/ GetSystemInfo
    \/ Select
    \/ Download
    \/ Complete

DownloadSpec == DownloadInit /\ [][DownloadNext]_vars

(***************************************************************************)
(* Properties of the health run.                                           *)
(***************************************************************************)
Categories == {"check_system_info", "check_ollama_service", "check_llama_cpp",
               "check_vscode_integration", "check_network_connectivity",
               "check_performance_metrics"}

\* The fixed probe sequence of each category.
CategoryProbes(stage) ==
    CASE stage = "check_ollama_service" ->
            <<"ollama_process", "ollama_api", "ollama_models">>
      [] stage = "check_llama_cpp" ->
            <<"llama_cpp_server", "llama_cpp_api", "llama_cpp_models">>
      [] stage = "check_vscode_integration" ->
            <<"continue_config", "continue_extension">>
      [] stage = "check_network_connectivity" ->
            <<"internet", "port_11434", "port_8080", "port_1234">>
      [] stage = "check_performance_metrics" ->
            <<"cpu_usage", "memory_usage", "disk_usage", "ai_processes">>
      [] OTHER -> <<>>

Invoked(name) == \E j \in 1..Len(probes) : probes[j].probe = name
HasRun(stage) == \E i \in 1..Len(stages) : stages[i] = stage
RunReturned == pc \in {"save_results", "exit", "done"}

\* The outcomes with which a probe has failed (exception, connection error,
\* timeout, malformed response, missing library).
Failures == {"raise", "NameError", "ConnectionError", "Timeout", "TimeoutExpired",
             "FileNotFoundError", "malformed", "ZeroDivisionError"}

\* C1: batch isolation - once a category has run, every probe of its fixed
\* sequence that comes after a failed probe has been executed too.
C1_BatchIsolation ==
    \A stage \in Categories :
        HasRun(stage) =>
            \A k \in 1..Len(CategoryProbes(stage)) :
                (\E j \in 1..Len(probes) :
                    /\ probes[j].probe = CategoryProbes(stage)[k]
                    /\ probes[j].out \in Failures)
                => \A m \in (k + 1)..Len(CategoryProbes(stage)) :
                       Invoked(CategoryProbes(stage)[m])

\* C2: category independence - no exception leaves a check category, and when
\* run_full_check has returned, every category, the recommendation step and
\* the summary have been executed, whatever failed inside a category.
C2_CategoryIndependence ==
    /\ pc # "aborted"
    /\ RunReturned =>
          /\ \A stage \in Categories : HasRun(stage)
          /\ HasRun("generate_recommendations")
          /\ HasRun("summary")

\* C2 witness: a run that returned although two categories failed as a whole.
C2_Witness ==
    /\ pc = "done"
    /\ Get(checks, "ollama_service") = "ERROR"
    /\ Get(checks, "network") = "ERROR"
    /\ HasRun("check_performance_metrics")

\* The stage order the specification gives.
ClaimedOrder == <<"check_system_info", "check_ollama_service", "check_llama_cpp",
                  "check_vscode_integration", "check_network_connectivity",
                  "check_performance_metrics", "generate_recommendations",
                  "summary">>

\* C3: the stages execute once each in the fixed order (the stages executed so
\* far are a prefix of that order, followed only by main's own steps), and the
\* recommendations and the verdict exist only after all six categories ran.
C3_StageOrder ==
    /\ \A i \in 1..Len(stages) :
          IF i <= Len(ClaimedOrder) THEN stages[i] = ClaimedOrder[i]
          ELSE stages[i] \in {"save_results", "exit"}
    /\ RunReturned => Len(stages) >= Len(ClaimedOrder)
    /\ (recommendations # <<>> \/ verdict # "None") =>
          \A stage \in Categories : HasRun(stage)

\* C3 witness: a finished run.
C3_Witness ==
    /\ pc = "done"
    /\ Len(stages) = Len(ClaimedOrder) + 2
    /\ verdict # "None"

\* C4: the verdict rule on the numbers of ERROR and WARNING entries of the map.
C4_VerdictRule ==
    LET errors   == CountStatus(checks, "ERROR")
        warnings == CountStatus(checks, "WARNING")
    IN  verdict # "None" =>
          /\ errors = 0 => verdict = "healthy"
          /\ (0 < errors /\ errors < warnings) => verdict = "degraded"
          /\ (0 < errors /\ errors >= warnings) => verdict = "critical"
          /\ (errors = warnings /\ errors > 0) => verdict = "critical"

\* C4 witness: the tie, as many errors as warnings.
C4_Witness ==
    /\ verdict = "critical"
    /\ CountStatus(checks, "ERROR") = CountStatus(checks, "WARNING")
    /\ CountStatus(checks, "ERROR") > 0

Ladder(u, warnAt, errorAt) ==
    IF u < warnAt * 10 THEN "OK" ELSE IF u < errorAt * 10 THEN "WARNING" ELSE "ERROR"

\* C6: each metric that was read is classified by its thresholds, and its
\* status is recorded under the metric's name.
C6_Thresholds ==
    \A j \in 1..Len(probes) :
        probes[j].out = "read" =>
            /\ probes[j].probe = "cpu_usage" =>
                  Get(checks, "cpu_usage") = Ladder(probes[j].val, 50, 80)
            /\ probes[j].probe = "memory_usage" =>
                  Get(checks, "memory_usage") = Ladder(probes[j].val, 70, 85)
            /\ probes[j].probe = "disk_usage" =>
                  Get(checks, "disk_usage") =
                      (IF probes[j].val * 100 < 80 * probes[j].total THEN "OK"
                       ELSE IF probes[j].val * 100 < 90 * probes[j].total THEN "WARNING"
                       ELSE "ERROR")

\* C6 witness: CPU exactly at 50.0 %, memory at 85.0 %, disk at 90 %.
C6_Witness ==
    /\ \E j \in 1..Len(probes) : probes[j].probe = "cpu_usage" /\ probes[j].val = 500
    /\ \E j \in 1..Len(probes) : probes[j].probe = "memory_usage" /\ probes[j].val = 850
    /\ \E j \in 1..Len(probes) : probes[j].probe = "disk_usage" /\ probes[j].val = 450
    /\ Get(checks, "cpu_usage") = "WARNING"
    /\ Get(checks, "memory_usage") = "ERROR"
    /\ Get(checks, "disk_usage") = "ERROR"

\* The rules of the recommendation engine, in their fixed order.
RuleOrder == <<"start_ollama", "check_ollama_status", "pull_model", "install_extension",
               "cpu", "memory", "disk", "memory_tier", "platform_hint">>

\* The rule a recommendation comes from.
RuleOf(rec) ==
    CASE rec = "Start Ollama: ~/.ollama/start.sh" -> "start_ollama"
      [] rec = "Check if Ollama service is running: ~/.ollama/status.sh"
            -> "check_ollama_status"
      [] rec = "Download models: ollama pull dolphin-mistral:7b-dpo-laser" -> "pull_model"
      [] rec = "Install Continue.dev: code --install-extension continue.continue"
            -> "install_extension"
      [] rec = "High CPU usage - close unnecessary applications" -> "cpu"
      [] rec = "High memory usage - restart applications or add more RAM" -> "memory"
      [] rec = "Low disk space - free up space or move models to external drive" -> "disk"
      [] rec \in {"Consider downloading larger models (13B+) for better coding assistance",
                  "Medium models (7B-13B) should provide good performance",
                  "Limited memory - stick to small models (3B-7B)"} -> "memory_tier"
      [] rec \in {"For Apple Silicon: Ensure Metal acceleration is enabled (LLAMA_METAL=1)",
                  "Consider installing CUDA drivers for NVIDIA GPU acceleration"}
            -> "platform_hint"
      [] OTHER -> "unknown"

\* What makes a rule fire: its own entry of the status map, or the platform.
Fires(rule) ==
    CASE rule = "start_ollama"        -> Get(checks, "ollama_process") = "WARNING"
      [] rule = "check_ollama_status" -> Get(checks, "ollama_api") = "ERROR"
      [] rule = "pull_model"          -> Get(checks, "ollama_models") = "WARNING"
      [] rule = "install_extension"   -> Get(checks, "continue_extension") = "WARNING"
      [] rule = "cpu"                 -> Get(checks, "cpu_usage") = "ERROR"
      [] rule = "memory"              -> Get(checks, "memory_usage") = "ERROR"
      [] rule = "disk"                -> Get(checks, "disk_usage") = "ERROR"
      [] rule = "memory_tier"         -> TRUE
      [] rule = "platform_hint"       -> platform \in {"darwin", "linux"}

\* The place of a rule in the order (0 for none).
RuleIndex(rule) ==
    IF \E i \in 1..Len(RuleOrder) : RuleOrder[i] = rule
    THEN CHOOSE i \in 1..Len(RuleOrder) : RuleOrder[i] = rule
    ELSE 0

\* C12: once generated, the recommendation list is the value of the engine on
\* the status map, the snapshot and the platform; its messages follow the
\* fixed rule order without repetition; and a rule has a message in the list
\* exactly when its own condition holds, whatever the other rules did.
C12_RecommendationOrder ==
    HasRun("generate_recommendations") =>
        /\ recommendations = generate_recommendations(checks, system_info, platform)
        /\ \A i \in 1..Len(recommendations) :
               RuleOf(recommendations[i]) # "unknown"
        /\ \A i \in 1..(Len(recommendations) - 1) :
               RuleIndex(RuleOf(recommendations[i])) <
                   RuleIndex(RuleOf(recommendations[i + 1]))
        /\ {RuleOf(recommendations[i]) : i \in 1..Len(recommendations)} =
               {RuleOrder[k] : k \in {n \in 1..Len(RuleOrder) : Fires(RuleOrder[n])}}

\* C12 witness: the memory and the disk rule fire together on macOS, the other
\* status rules do not.
C12_Witness ==
    /\ HasRun("generate_recommendations")
    /\ platform = "darwin"
    /\ Get(checks, "memory_usage") = "ERROR"
    /\ Get(checks, "disk_usage") = "ERROR"
    /\ Len(recommendations) = 4

\* The places of the memory-tier messages in the recommendation list.
TierPlaces == {i \in 1..Len(recommendations) : RuleOf(recommendations[i]) = "memory_tier"}

\* C13: exactly one memory-tier message is produced, and it is the largest
\* class from 32 GB of total memory on, the middle class from 16 GB on and
\* the smallest class below (memory in tenths of a GB).
C13_MemoryTier ==
    HasRun("generate_recommendations") =>
        /\ Cardinality(TierPlaces) = 1
        /\ \A i \in TierPlaces :
               recommendations[i] =
                   (IF memory_gb(system_info) >= 320
                    THEN "Consider downloading larger models (13B+) for better coding assistance"
                    ELSE IF memory_gb(system_info) >= 160
                    THEN "Medium models (7B-13B) should provide good performance"
                    ELSE "Limited memory - stick to small models (3B-7B)")

\* C14: when the model listing of the Ollama category succeeded and
\* reported no model, the generated recommendation list holds the suggestion
\* to pull a model.
C14_NoModelsRule ==
    (/\ HasRun("generate_recommendations")
     /\ \E j \in 1..Len(probes) :
            probes[j].probe = "ollama_models" /\ probes[j].out = "nomodels")
    => \E i \in 1..Len(recommendations) : RuleOf(recommendations[i]) = "pull_model"

\* The outcomes of the port probes made so far.
PortStates == {probes[j].out : j \in {i \in 1..Len(probes) :
                                        \E n \in 1..Len(ports_to_check) :
                                            probes[i].probe = ports_to_check[n]}}

\* The step of the network category, in which the ports that were probed
\* were open or closed.
PortsProbed ==
    /\ pc = "check_network_connectivity"
    /\ pc' # pc
    /\ \A j \in (Len(probes) + 2)..Len(probes') : probes'[j].out \in {"open", "closed"}

\* C16: the network category leaves the status map as it would with all three
\* ports closed, whatever ports are open; and when the three ports were found
\* open or closed, the map has no "network" entry and no entry for a port.
C16_PortsNeverFail ==
    /\ [][PortsProbed =>
             checks' = check_network_connectivity(checks, system_info,
                                                  probes'[Len(probes) + 1].out,
                                                  <<"closed", "closed", "closed">>).checks]_vars
    /\ [](\A n \in 1..Len(ports_to_check) : ports_to_check[n] \notin DOMAIN checks)
    /\ []((Invoked("port_1234") /\ PortStates \subseteq {"open", "closed"})
            => "network" \notin DOMAIN checks)

\* C16 witness: a finished run that found the first port open and the other
\* two closed, with the verdict healthy and the exit status 0.
C16_Witness ==
    /\ pc = "done"
    /\ \E j \in 1..Len(probes) : probes[j].probe = "port_11434" /\ probes[j].out = "open"
    /\ \E j \in 1..Len(probes) : probes[j].probe = "port_8080" /\ probes[j].out = "closed"
    /\ \E j \in 1..Len(probes) : probes[j].probe = "port_1234" /\ probes[j].out = "closed"
    /\ verdict = "healthy"
    /\ exit_code = 0

\* The probe found an optional resource absent: no Ollama or llama.cpp server
\* process, no models directory, no Continue config file, no VS Code
\* executable, no Continue extension.
Absent(p) ==
    \/ p.probe \in {"ollama_process", "llama_cpp_server"} /\ p.out = "notfound"
    \/ p.probe = "llama_cpp_models" /\ p.out = "nodir"
    \/ p.probe = "continue_config" /\ p.out = "missing"
    \/ p.probe = "continue_extension" /\ p.out \in {"notinstalled", "FileNotFoundError"}

\* The check name under which an absence is recorded.
AbsenceKey(p) ==
    IF p.probe = "continue_extension" /\ p.out = "FileNotFoundError" THEN "vscode"
    ELSE p.probe

\* C17: an absent optional resource is recorded as WARNING under its check,
\* and a run whose only departures from the nominal outcomes are such
\* absences has no ERROR entry and exits with 0.
C17_UnavailableIsWarning ==
    /\ \A j \in 1..Len(probes) :
           Absent(probes[j]) => Get(checks, AbsenceKey(probes[j])) = "WARNING"
    /\ (\A j \in 1..Len(probes) :
            Absent(probes[j]) \/ (Nominal(probes[j]) /\ probes[j].out # "NameError"))
       => /\ CountStatus(checks, "ERROR") = 0
          /\ pc = "done" => exit_code = 0

\* C17 witness: a finished run without an Ollama process, a models directory
\* and a Continue config file: three warnings, exit status 0.
C17_Witness ==
    /\ pc = "done"
    /\ exit_code = 0
    /\ \E j \in 1..Len(probes) : probes[j].probe = "ollama_process" /\ Absent(probes[j])
    /\ \E j \in 1..Len(probes) : probes[j].probe = "llama_cpp_models" /\ Absent(probes[j])
    /\ \E j \in 1..Len(probes) : probes[j].probe = "continue_config" /\ Absent(probes[j])
    /\ CountStatus(checks, "WARNING") = 3

\* C19: the snapshot is empty until the System Info category has run, and
\* it is written only by the step of that category, on an empty snapshot:
\* every other step, the recommendation step included, leaves it as it is.
C19_SnapshotWriteOnce ==
    /\ [](~HasRun("check_system_info") => system_info = EmptyDict)
    /\ [][system_info' # system_info =>
             (pc = "check_system_info" /\ system_info = EmptyDict)]_vars

\* C19 witness: a finished run that stored 32.0 GB in the snapshot and later
\* read a memory usage of 85 %.
C19_Witness ==
    /\ pc = "done"
    /\ memory_gb(system_info) = 320
    /\ Get(checks, "memory_usage") = "ERROR"
    /\ recommendations # <<>>

\* C20: the generated recommendation list is never empty (so the branch that
\* prints "No issues detected" is never taken): it holds exactly one
\* memory-tier message, also for an empty snapshot.
C20_NeverEmpty ==
    HasRun("generate_recommendations") =>
        /\ recommendations # <<>>
        /\ Cardinality({i \in 1..Len(recommendations) :
                           RuleOf(recommendations[i]) = "memory_tier"}) = 1

\* C20 witness: on a platform without a hint and with an empty snapshot the
\* list is the memory-tier message alone.
C20_Witness ==
    /\ HasRun("generate_recommendations")
    /\ system_info = EmptyDict
    /\ platform = "win32"
    /\ recommendations = <<"Limited memory - stick to small models (3B-7B)">>

\* The category has run and left its category-level ERROR and nothing else:
\* its first probe met the missing library and no later probe was made.
StoppedAtFirst(stage, key) ==
    HasRun(stage) =>
        /\ Get(checks, key) = "ERROR"
        /\ \A k \in 1..Len(CategoryProbes(stage)) :
               /\ CategoryProbes(stage)[k] \notin DOMAIN checks
               /\ k > 1 => ~Invoked(CategoryProbes(stage)[k])
        /\ \E j \in 1..Len(probes) :
               probes[j].probe = CategoryProbes(stage)[1] /\ probes[j].out = "NameError"

\* Without psutil: the snapshot stays empty, the three categories that use
\* psutil stop at their first statement, and a finished run has at least three
\* errors and a non-zero exit status.
WithoutPsutil ==
    /\ system_info = EmptyDict
    /\ StoppedAtFirst("check_ollama_service", "ollama_service")
    /\ StoppedAtFirst("check_llama_cpp", "llama_cpp")
    /\ StoppedAtFirst("check_performance_metrics", "performance")
    /\ HasRun("check_performance_metrics") => CountStatus(checks, "ERROR") >= 3
    /\ pc = "done" => exit_code # 0

\* The fallback of check_system_info could make its reads.
FallbackWorked ==
    \E j \in 1..Len(probes) :
        probes[j].probe = "system_info_fallback" /\ probes[j].out = "ok"

\* C21 as stated: without psutil, WithoutPsutil holds and system_info is
\* recorded as WARNING.
C21_PsutilUnavailable ==
    ~HAS_PSUTIL =>
        /\ WithoutPsutil
        /\ HasRun("check_system_info") => Get(checks, "system_info") = "WARNING"

\* C21 amended: without psutil, WithoutPsutil holds and system_info is
\* recorded as WARNING when the fallback could make its reads, and as ERROR
\* when it could not.
C21_PsutilUnavailableAmended ==
    ~HAS_PSUTIL =>
        /\ WithoutPsutil
        /\ HasRun("check_system_info") =>
               Get(checks, "system_info") = (IF FallbackWorked THEN "WARNING" ELSE "ERROR")

\* C21 witness: a finished run without psutil whose fallback worked: one
\* warning for system_info, three category errors, exit status 1.
C21_Witness ==
    /\ ~HAS_PSUTIL
    /\ pc = "done"
    /\ FallbackWorked
    /\ Get(checks, "system_info") = "WARNING"
    /\ CountStatus(checks, "ERROR") = 3
    /\ exit_code = 1

\* C22: every value of the status map is OK, WARNING or ERROR, so the number
\* of entries is the sum of the three counts of the summary.
C22_StatusValues ==
    /\ \A k \in DOMAIN checks : checks[k] \in {"OK", "WARNING", "ERROR"}
    /\ Cardinality(DOMAIN checks) =
           CountStatus(checks, "OK") + CountStatus(checks, "WARNING")
               + CountStatus(checks, "ERROR")

\* C22 witness: a run past its summary whose map holds all three statuses,
\* after ports were found open and closed (printed as OK and INFO).
C22_Witness ==
    /\ verdict # "None"
    /\ CountStatus(checks, "OK") > 0
    /\ CountStatus(checks, "WARNING") > 0
    /\ CountStatus(checks, "ERROR") > 0
    /\ PortStates = {"open", "closed"}

(***************************************************************************)
(* Properties of the benchmark.                                            *)
(***************************************************************************)
\* The target of index t has been summarised.
Completed(t) == t < mi \/ (bpc = "done" /\ t <= mi)

\* The result of the j-th call of benchmark_model can be read: it is in
\* model_results, or in the entry of its target (no later occurrence of the
\* same name has replaced it).
Visible(j) ==
    LET t == calls[j].target
    IN  \/ t = mi /\ bpc \in {"case", "summary"} /\ calls[j].prompt <= Len(model_results)
        \/ /\ Completed(t)
           /\ ~\E u \in (t + 1)..Len(models) : Completed(u) /\ models[u] = models[t]

EntryOf(name) == (CHOOSE i \in 1..Len(results) : results[i].key = name)

ResultOf(j) ==
    LET t == calls[j].target
    IN  IF t = mi /\ bpc \in {"case", "summary"}
        THEN model_results[calls[j].prompt]
        ELSE results[EntryOf(models[t])].value.individual_tests[calls[j].prompt]

\* The command started and did not end within 120 s.
TimedOut(o) == o.ends \in {"exit0", "exit1"} /\ o.duration > 120 * 1000

\* The command failed otherwise: it could not start, or ended with a
\* non-zero status.
FailedOtherwise(o) == ~TimedOut(o) /\ o.ends # "exit0"
Cause(o) == IF o.ends = "exit1" THEN "CalledProcessError" ELSE o.ends

\* C7: a case whose probe does not return within the timeout gives a result
\* with success false, the response time 120 s, no tokens, no throughput and
\* the error "timeout", and benchmark_model returns.
C7_BenchmarkTimeout ==
    /\ bpc # "aborted"
    /\ \A j \in 1..Len(calls) :
          (Visible(j) /\ TimedOut(calls[j].outcome)) =>
              LET r == ResultOf(j)
              IN  /\ r.success = FALSE
                  /\ r.response_time = 120 * 1000
                  /\ r.tokens_generated = 0
                  /\ r.tokens_per_second = 0
                  /\ r.error = "timeout"

\* C7 witness: a finished benchmark that holds a timed out result.
C7_Witness ==
    /\ bpc = "done"
    /\ \E j \in 1..Len(calls) :
          Visible(j) /\ TimedOut(calls[j].outcome) /\ ResultOf(j).error = "timeout"

\* C8: a case whose probe fails otherwise gives a result with success false,
\* no tokens, no throughput, the time elapsed since the case started and the
\* stringified cause; benchmark_model never raises, and a finished benchmark
\* has run every case of every target, in order.
C8_BenchmarkFailure ==
    /\ bpc # "aborted"
    /\ \A j \in 1..Len(calls) :
          (Visible(j) /\ FailedOtherwise(calls[j].outcome)) =>
              LET r == ResultOf(j)
              IN  /\ r.success = FALSE
                  /\ r.tokens_generated = 0
                  /\ r.tokens_per_second = 0
                  /\ r.response_time = calls[j].outcome.duration
                  /\ r.error = StrOf(Cause(calls[j].outcome))
    /\ bpc = "done" =>
          /\ Len(calls) = Len(models) * NumPrompts
          /\ \A j \in 1..Len(calls) :
                /\ calls[j].target = ((j - 1) \div NumPrompts) + 1
                /\ calls[j].prompt = ((j - 1) % NumPrompts) + 1

\* C8 witness: the first case of the first of two targets could not start its
\* command, and the benchmark ran all ten cases.
C8_Witness ==
    /\ bpc = "done"
    /\ Len(models) = 2
    /\ Len(calls) = 10
    /\ calls[1].outcome.ends = "FileNotFoundError"

Abs(x) == IF x < 0 THEN 0 - x ELSE x

\* C9: in every entry of the result set the two averages are the means over
\* the successful results (to the half unit of the last digit kept), the
\* success rate is successful/total x 100, and successful <= total = the
\* number of cases run.
C9_TargetSummary ==
    \A e \in 1..Len(results) :
        LET tests == results[e].value.individual_tests
            sm    == results[e].value.summary
            good  == SelectSeq(tests, IsSuccess)
            n     == Len(good)
            times == [i \in 1..n |-> good[i].response_time]
            rates == [i \in 1..n |-> good[i].tokens_per_second]
        IN  /\ sm.total_tests = Len(tests)
            /\ sm.successful_tests = n
            /\ sm.successful_tests <= sm.total_tests
            /\ n > 0 => 2 * Abs(sm.average_response_time * 10 * n - SumSeq(times)) <= 10 * n
            /\ n > 0 => 2 * Abs(sm.average_tokens_per_second * n - SumSeq(rates)) <= n
            /\ 2 * Abs(sm.success_rate * sm.total_tests - n * 1000) <= sm.total_tests

\* C9 witness: an entry with successful, failed and timed out results.
C9_Witness ==
    \E e \in 1..Len(results) :
        LET tests == results[e].value.individual_tests
        IN  /\ results[e].value.summary.successful_tests = 3
            /\ \E i \in 1..Len(tests) : tests[i].error = "timeout"
            /\ \E i \in 1..Len(tests) : ~tests[i].success /\ tests[i].response_time = 300
            /\ results[e].value.summary.average_response_time > 100

ZeroSummary(sm) ==
    /\ sm.average_response_time = 0
    /\ sm.average_tokens_per_second = 0
    /\ sm.success_rate = 0

\* C10: an entry without a successful result has both averages and the
\* success rate 0, and so has the summary of no case at all.
C10_ZeroStatistics ==
    /\ \A e \in 1..Len(results) :
          results[e].value.summary.successful_tests = 0 =>
              ZeroSummary(results[e].value.summary)
    /\ bpc = "done" => ZeroSummary(target_summary(<<>>, 0))

\* C10 witness: an entry whose five cases all failed, one of them timed out.
C10_Witness ==
    \E e \in 1..Len(results) :
        /\ results[e].value.summary.successful_tests = 0
        /\ Len(results[e].value.individual_tests) = 5
        /\ \E i \in 1..5 : results[e].value.individual_tests[i].error = "timeout"

\* The place of a target in the result set, in insertion order.
PlaceOf(name) == EntryOf(name)

\* C11: the table of the results summary has one row per entry of the result
\* set (a permutation of its targets), in descending order of average
\* tokens/sec, and rows of equal average tokens/sec are in insertion order.
C11_Ranking ==
    displayed # <<>> =>
        LET table == displayed[1]
        IN  /\ Len(table) = Len(results)
            /\ {table[i].model : i \in 1..Len(table)} =
                   {results[i].key : i \in 1..Len(results)}
            /\ \A i \in 1..Len(table) :
                   table[i].average_tokens_per_second =
                       results[PlaceOf(table[i].model)].value.summary.average_tokens_per_second
            /\ \A i, j \in 1..Len(table) :
                   i < j =>
                       /\ table[i].average_tokens_per_second >=
                              table[j].average_tokens_per_second
                       /\ table[i].average_tokens_per_second =
                              table[j].average_tokens_per_second
                          => PlaceOf(table[i].model) < PlaceOf(table[j].model)

\* C11 witness: averages 12.0, 12.0 and 30.0 inserted in this order are
\* displayed as third, first, second.
C11_Witness ==
    /\ Len(results) = 3
    /\ displayed # <<>>
    /\ SortKey(results[1]) = 1200
    /\ SortKey(results[2]) = 1200
    /\ SortKey(results[3]) = 3000
    /\ [i \in 1..3 |-> displayed[1][i].model] =
          <<results[3].key, results[1].key, results[2].key>>

\* The number of targets that have been summarised.
NumCompleted == IF bpc = "done" THEN mi ELSE IF mi = 0 THEN 0 ELSE mi - 1

\* The names of a list of targets, each at its first occurrence.
RECURSIVE FirstOccurrences(_)
FirstOccurrences(q) ==
    IF q = <<>> THEN <<>>
    ELSE LET front == FirstOccurrences(SubSeq(q, 1, Len(q) - 1))
             name  == q[Len(q)]
         IN  IF \E i \in 1..Len(front) : front[i] = name THEN front
             ELSE Append(front, name)

\* The last summarised target of a name.
LastOccurrence(name) ==
    CHOOSE t \in 1..NumCompleted :
        /\ models[t] = name
        /\ \A u \in (t + 1)..NumCompleted : models[u] # name

Succeeded(o) == o.ends = "exit0" /\ ~TimedOut(o)

\* No probe, stage or case has been executed twice, and the results that can
\* be read are those of the cases, one each, in prompt order.
C15_Once ==
    /\ Cardinality({probes[i].probe : i \in 1..Len(probes)}) = Len(probes)
    /\ Cardinality({stages[i] : i \in 1..Len(stages)}) = Len(stages)
    /\ Cardinality({<<calls[i].target, calls[i].prompt>> : i \in 1..Len(calls)}) = Len(calls)
    /\ bpc \in {"case", "summary"} =>
           Len(model_results) = Cardinality({j \in 1..Len(calls) : calls[j].target = mi})
    /\ \A e \in 1..Len(results) : Len(results[e].value.individual_tests) = NumPrompts
    /\ \A j \in 1..Len(calls) :
           Visible(j) =>
               /\ ResultOf(j).model = models[calls[j].target]
               /\ ResultOf(j).success <=> Succeeded(calls[j].outcome)
               /\ ResultOf(j).response_length =
                      (IF Succeeded(calls[j].outcome) THEN calls[j].outcome.chars ELSE 0)

\* A step keeps every entry of the status map, and appends at most one result
\* to model_results (or starts the list of the next target).
C15_Append ==
    /\ \A k \in DOMAIN checks : k \in DOMAIN checks' /\ checks'[k] = checks[k]
    /\ \/ model_results' = model_results
       \/ model_results' = <<>>
       \/ /\ Len(model_results') = Len(model_results) + 1
          /\ SubSeq(model_results', 1, Len(model_results)) = model_results

\* C15: every probe is invoked at most once in a run, also after a timeout or
\* an exception; every (target, prompt) case gives exactly one result, appended
\* in prompt order; and no entry of the status map is overwritten or removed.
C15_ExactlyOnce == []C15_Once /\ [][C15_Append]_vars

\* C15 witness: a finished health run in which the Ollama API call timed out
\* and the internet call failed to connect.
C15_Witness ==
    /\ pc = "done"
    /\ \E j \in 1..Len(probes) : probes[j].probe = "ollama_api" /\ probes[j].out = "Timeout"
    /\ \E j \in 1..Len(probes) :
           probes[j].probe = "internet" /\ probes[j].out = "ConnectionError"
    /\ Invoked("port_1234")

\* C18: the result of a case whose command succeeded has success true, no
\* error, the response time end - start, the token estimate words x 1.3 (a
\* non-negative number), and tokens_per_second = estimate / response time, or
\* 0 when the response time is not positive (each to the half unit of the last
\* digit kept).
C18_SuccessfulResult ==
    \A j \in 1..Len(calls) :
        (Visible(j) /\ Succeeded(calls[j].outcome)) =>
            LET r == ResultOf(j)
                o == calls[j].outcome
            IN  /\ r.success = TRUE
                /\ r.error = "None"
                /\ 2 * Abs(r.response_time - o.duration) <= 10
                /\ r.tokens_generated >= 0
                /\ 2 * Abs(r.tokens_generated * 10 - o.words * 13) <= 10
                /\ o.duration > 0 =>
                       2 * Abs(r.tokens_per_second * o.duration - o.words * 130000)
                           <= o.duration
                /\ o.duration <= 0 => r.tokens_per_second = 0

\* C18 witness: a finished benchmark with a result of no duration, one of a
\* negative duration and one of 2.504 s for 37 words.
C18_Witness ==
    /\ bpc = "done"
    /\ \E j \in 1..Len(calls) :
           Visible(j) /\ calls[j].outcome.duration = 0 /\ ResultOf(j).success
    /\ \E j \in 1..Len(calls) :
           Visible(j) /\ calls[j].outcome.duration < 0 /\ ResultOf(j).success
    /\ \E j \in 1..Len(calls) :
           /\ Visible(j)
           /\ calls[j].outcome.words = 37
           /\ ResultOf(j).tokens_generated = 48
           /\ ResultOf(j).tokens_per_second = 1921

(***************************************************************************)
(* Properties of the downloader.                                           *)
(***************************************************************************)
\* The modes whose selection goes through get_model_recommendations.
Gated == mode(args) \in {"all", "category", "interactive"}

\* The place of a name in the catalog (0: not a name of the catalog).
CatalogIndex(name) ==
    IF \E i \in 1..Len(Catalog(0)) : Catalog(0)[i].name = name
    THEN CHOOSE i \in 1..Len(Catalog(0)) : Catalog(0)[i].name = name
    ELSE 0

\* Every model a download was attempted for is in the catalog with
\* min_memory <= memory_gb.
MemoryGate ==
    \A j \in 1..Len(attempts) :
        /\ CatalogIndex(attempts[j].name) > 0
        /\ Catalog(0)[CatalogIndex(attempts[j].name)].min_memory
               <= dl_system_info.memory_gb

\* The attempts so far are in the order of the catalog.
InCatalogOrder ==
    \A j \in 1..(Len(attempts) - 1) :
        CatalogIndex(attempts[j].name) <= CatalogIndex(attempts[j + 1].name)

\* The numbers typed at the prompt that name a listed model, in the order
\* they were typed.
RECURSIVE Typed(_, _)
Typed(items, n) ==
    IF items = <<>> THEN <<>>
    ELSE IF Head(items) \in Digits /\ 1 <= int(Head(items)) /\ int(Head(items)) <= n
    THEN <<int(Head(items))>> \o Typed(Tail(items), n)
    ELSE Typed(Tail(items), n)

\* The attempts so far are the models of the typed numbers, in the order
\* the numbers were typed, a number typed twice being attempted twice.
InTypedOrder ==
    LET recs == get_model_recommendations(dl_system_info)
        nums == Typed(choice.items, Len(recs))
    IN  /\ Len(attempts) <= Len(nums)
        /\ \A j \in 1..Len(attempts) : attempts[j].name = recs[nums[j]].name

\* A pull that ended with a non-zero status is followed by the attempt for
\* the next selected model, and a run that completes attempted them all.
FailureIsolated ==
    /\ \A j \in 1..Len(attempts) :
          (attempts[j].outcome = "exit1" /\ j < Len(models_to_download)) =>
              \/ Len(attempts) > j
              \/ dpc = "download" /\ di = j + 1
    /\ \A j \in 1..Len(attempts) : attempts[j].name = models_to_download[j]
    /\ completed => Len(attempts) = Len(models_to_download)

\* C24, as stated: in the --all, --category and interactive modes every
\* attempted model has min_memory <= memory_gb, the attempts are in catalog
\* order, and a failed pull does not stop the remaining attempts.
C24_DownloaderGate ==
    Gated => MemoryGate /\ InCatalogOrder /\ FailureIsolated

\* C24, amended: in the --all, --category and interactive modes every
\* attempted model has min_memory <= memory_gb and a failed pull does not
\* stop the remaining attempts; the attempts are in catalog order in the
\* --all and --category modes and for 'all' typed at the prompt, and in the
\* order of the typed numbers otherwise.
C24_DownloaderGateAmended ==
    Gated =>
        /\ MemoryGate
        /\ FailureIsolated
        /\ IF choice.kind = "numbers" THEN InTypedOrder ELSE InCatalogOrder

\* C24 witness: "2,1" typed on a machine with 16 GB, the pull of the second
\* model of the catalog fails, that of the first is attempted next, and the
\* run completes.
C24_Witness ==
    /\ mode(args) = "interactive"
    /\ choice.kind = "numbers"
    /\ choice.items = <<"2", "1">>
    /\ dl_system_info.memory_gb = 16
    /\ Len(attempts) = 2
    /\ attempts[1] = [name |-> "dolphin-mixtral-8x7b", outcome |-> "exit1"]
    /\ attempts[2].name = "dolphin-2.6-mistral-7b"
    /\ completed

====
